---- MODULE Spec2Model ----
(***************************************************************************)
(* Job orchestration of the PPT-to-image servers: admission control and    *)
(* the worker routine of websocket_server_v2.py, its status queries and    *)
(* its locks; upload, worker routine, status query, listing, callback      *)
(* payload and delivery and restart recovery of api.py; start_task, the    *)
(* worker and the locks of v1/websocket_server.py; the sessions,           *)
(* conversion requests and image streaming of flask_server.py; the         *)
(* connections, worker threads and notifications of websocket_server.py.   *)
(* One behaviour is one run of one of the server programs; the variable    *)
(* program says which.                                                     *)
(***************************************************************************)
EXTENDS Integers, Sequences, FiniteSets, TLC

(* ---------------------------------------------------------------------- *)
(* Program constants and model bounds                                      *)
(* ---------------------------------------------------------------------- *)

\* websocket_server_v2.py: admission limit and executor size.
MAX_CONCURRENT_TASKS == 5

\* Number of start_ppt_processing requests a behaviour may contain.
NumRequests == 6

\* Largest slide count the external pipeline reports.
MaxSlides == 1

\* api.py: retries after the first callback attempt, and the delay before each.
MAX_CALLBACK_RETRIES == 3
CALLBACK_RETRY_DELAY == 5

\* Number of uploads to api.py a behaviour may contain.
NumUploads == 2

Uploads == 1 .. NumUploads

Requests == 1 .. NumRequests

\* request.sid of the connection that sends request r (one connection each).
Sid(r) == r

None == "None"

\* A local variable that holds no returned object (not yet assigned, or its
\* frame is gone).
NoResult == [type |-> "NoneType"]

Programs == {"websocket_server_v2", "api", "v1", "flask_server", "api_service",
             "websocket_server"}

VARIABLES
    program,             \* which server program this run is
    tasks,               \* v2: tasks = {} (uuid -> task_data)
    tasks_lock,          \* v2: holder of tasks_lock (0 = free)
    active_connections,  \* v2: sid -> uuid of the task it registered for
    rooms,               \* v2: set of <<sid, uuid>>: sid joined room task_<uuid>
    hpc,                 \* v2: position of each start_ppt_processing handler
    active_tasks,        \* v2: the handler's local active_tasks
    reply,               \* v2: what emit() sent back to the requesting client
    wpc,                 \* v2: position of each process_ppt_task worker
    result,              \* v2: the worker's local result
    exc,                 \* v2: the exception the worker's except clause caught
    future_exc,          \* v2: exception stored in the task's Future
    emitted,             \* v2: events sent to room task_<uuid>, in order
    api_tasks,           \* api: tasks = {} (task_id -> record)
    api_reply,           \* api: HTTP status upload_file answered with (0: none yet)
    apc,                 \* api: position of each process_ppt_task thread
    api_exc,             \* api: exception raised inside the worker's try block
    retry_count,         \* api: send_callback's retry_count argument
    cb_chains,           \* api: number of send_callback(..., retry_count=0) calls
    cb_trace,            \* api: posts (the payload's status) and sleeps, in order
    cb_return,           \* api: what the outermost send_callback returned
    cb_snapshot,         \* api: the task record when the callback chain started
    v1_tasks,            \* v1: tasks = {} (uuid -> task_data)
    v1pc,                \* v1: position of each task's handler and worker
    v1_image_paths,      \* v1: the worker's local image_paths
    v1_exc,              \* v1: the exception process_images_task caught
    v1_emitted,          \* v1: events sent to room task_<uuid>, in order
    sessions,            \* flask_server: PPTService.sessions
    convert_reply,       \* flask_server: how each convert_ppt call ended
    convert_pc,          \* flask_server: position and session of each convert_ppt call
    result_folder,       \* api service: the directories under results/
    upload_folder,       \* api service: extension of uploads/<id>.* ("" = no file)
    svc_tasks,           \* api service: tasks = {} of the running process
    svc_pc,              \* api service: position of each job's worker thread
    booted,              \* api service: module load is over, app.run() serves
    loads,               \* api service: load_existing_tasks calls of this process
    restarts,            \* api service: times the process was killed and restarted
    status_at_kill,      \* api service: each task's status when the process died
    query_reply,         \* api service: answer to the last status query
    form_callback_url,   \* api: request.form.get('callback_url') of each upload
    terminal_replies,    \* api: distinct answers to status queries on a terminal task
    list_reply,          \* api: the response of the step just taken, if it was GET /api/tasks
    v1_start_requests,   \* v1: start_task events handled for each uuid
    v1_submits,          \* v1: task_executor.submit calls made for each uuid
    ws_tasks,            \* websocket_server: tasks = {} (task_id -> record)
    connected_clients,   \* websocket_server: connected_clients (task_id -> websocket)
    ws_client,           \* websocket_server: state of each client connection
    ws_pc,               \* websocket_server: position of each process_ppt_task thread
    ws_exc,              \* websocket_server: exception raised in the worker's try block
    ws_websocket,        \* websocket_server: the connection each upload message arrived on
    ws_cleanup,          \* websocket_server: entries handle_client's cleanup loop has yet to visit
    ws_delivered,        \* websocket_server: messages each task's client received, in order
    status_query,        \* v2: the get_task_status / join_task handler being served
    connections_lock,    \* v2: holder of connections_lock (0 = free)
    stats_pc,            \* v1, v2: position of the thread that calls get_server_stats
    v1_locks,            \* v1: holders of tasks_lock and connections_lock (0 = free)
    v1_hpc,              \* v1: position of each start_task handler
    callback_data,       \* api: a call of send_callback, its task record and its payload
    stream_reply         \* flask_server: a GET /stream request and its answer

vars_v2 == <<tasks, tasks_lock, active_connections, rooms, hpc, active_tasks,
             reply, wpc, result, exc, future_exc, emitted>>

vars_v2_query == <<status_query>>

vars_locks == <<connections_lock, stats_pc, v1_locks, v1_hpc>>

vars_api_http == <<form_callback_url, terminal_replies>>

vars_api == <<api_tasks, api_reply, apc, api_exc, retry_count,
              cb_chains, cb_trace, cb_return, cb_snapshot, list_reply, vars_api_http>>

vars_v1_exec == <<v1_start_requests, v1_submits>>

vars_v1 == <<v1_tasks, v1pc, v1_image_paths, v1_exc, v1_emitted, vars_v1_exec>>

vars_flask == <<sessions, convert_reply, convert_pc>>

vars_svc == <<result_folder, upload_folder, svc_tasks, svc_pc, booted, loads,
              restarts, status_at_kill, query_reply>>

vars_ws_io == <<ws_websocket, ws_cleanup, ws_delivered>>

vars_ws == <<ws_tasks, connected_clients, ws_client, ws_pc, ws_exc, vars_ws_io>>

vars_replies == <<callback_data, stream_reply>>

vars == <<program, vars_v2, vars_api, vars_v1, vars_flask, vars_svc, vars_ws,
          vars_v2_query, vars_locks, vars_replies>>

(* ---------------------------------------------------------------------- *)
(* websocket_server_v2.py                                                  *)
(* ---------------------------------------------------------------------- *)

\* Thread identities, for the holder of a lock.
HandlerThread(r) == r
WorkerThread(t) == NumRequests + t

\* Faulty variant: the critical section is entered without waiting for the lock.
CanAcquire_NoLock(lock, thread) == TRUE

\* threading.RLock: free, or already held by the same thread.
CanAcquire(lock, thread) == lock = 0 \/ lock = thread

\* Faulty variant: only running tasks are counted, queued ones are not.
ActiveTasks_ProcessingOnly(ts) ==
    Cardinality({u \in DOMAIN ts : ts[u].status \in {"processing"}})

\* sum(1 for t in tasks.values() if t['status'] in ['queued', 'processing'])
ActiveTasks(ts) ==
    Cardinality({u \in DOMAIN ts : ts[u].status \in {"queued", "processing"}})

\* not (active_tasks >= MAX_CONCURRENT_TASKS)
Admissible(n) == ~(n >= MAX_CONCURRENT_TASKS)

\* task_data as built by the handler before admission.
TaskData(r) ==
    [uuid |-> r, status |-> "created", progress |-> 0, total_slides |-> 0,
     processed_slides |-> 0, download_urls |-> 0, error |-> None]

\* The status a task has: that of its record, and 'created' (the status of
\* the handler's task_data) while it is not in the store.
StatusOf(ts, t) == IF t \in DOMAIN ts THEN ts[t].status ELSE "created"

\* with tasks_lock: active_tasks = sum(...)
StartAcquire(r) ==
    /\ program = "websocket_server_v2"
    /\ hpc[r] = "idle"
    /\ r > 1 => hpc[r - 1] # "idle"
    /\ CanAcquire(tasks_lock, HandlerThread(r))
    /\ tasks_lock' = HandlerThread(r)
    /\ active_tasks' = [active_tasks EXCEPT ![r] = ActiveTasks(tasks)]
    /\ hpc' = [hpc EXCEPT ![r] = "counted"]
    /\ UNCHANGED <<program, vars_replies, vars_locks, vars_v2_query, vars_ws, vars_svc, vars_flask, vars_v1, vars_api, tasks, active_connections, rooms, reply, wpc,
                   result, exc, future_exc, emitted>>

\* Faulty variant: the record is stored before the capacity check rejects it.
Reject_Retain(r) ==
    /\ program = "websocket_server_v2"
    /\ hpc[r] = "counted"
    /\ ~Admissible(active_tasks[r])
    /\ tasks' = (r :> TaskData(r)) @@ tasks
    /\ reply' = [reply EXCEPT ![r] = "error_busy"]
    /\ tasks_lock' = 0
    /\ active_tasks' = [active_tasks EXCEPT ![r] = 0]
    /\ hpc' = [hpc EXCEPT ![r] = "rejected"]
    /\ UNCHANGED <<program, vars_replies, vars_locks, vars_v2_query, vars_ws, vars_svc, vars_flask, vars_v1, vars_api, active_connections, rooms, wpc, result,
                   exc, future_exc, emitted>>

\* if active_tasks >= MAX_CONCURRENT_TASKS: emit('error', busy); return
Reject(r) ==
    /\ program = "websocket_server_v2"
    /\ hpc[r] = "counted"
    /\ ~Admissible(active_tasks[r])
    /\ reply' = [reply EXCEPT ![r] = "error_busy"]
    /\ tasks_lock' = 0
    /\ active_tasks' = [active_tasks EXCEPT ![r] = 0]
    /\ hpc' = [hpc EXCEPT ![r] = "rejected"]
    /\ UNCHANGED <<program, vars_replies, vars_locks, vars_v2_query, vars_ws, vars_svc, vars_flask, vars_v1, vars_api, tasks, active_connections, rooms, wpc, result,
                   exc, future_exc, emitted>>

\* Faulty variant: the handler goes on to register the connection without
\* leaving the tasks_lock block.
Admit_HoldLock(r) ==
    /\ program = "websocket_server_v2"
    /\ hpc[r] = "counted"
    /\ Admissible(active_tasks[r])
    /\ tasks' = (r :> [TaskData(r) EXCEPT !.status = "queued"]) @@ tasks
    /\ tasks_lock' = HandlerThread(r)
    /\ active_tasks' = [active_tasks EXCEPT ![r] = 0]
    /\ hpc' = [hpc EXCEPT ![r] = "queued"]
    /\ UNCHANGED <<program, vars_replies, vars_locks, vars_v2_query, vars_ws, vars_svc, vars_flask, vars_v1, vars_api, active_connections, rooms, reply, wpc, result,
                   exc, future_exc, emitted>>

\* tasks[task_uuid] = task_data; task_data['status'] = 'queued';
\* leaving the with block releases the lock
Admit(r) ==
    /\ program = "websocket_server_v2"
    /\ hpc[r] = "counted"
    /\ Admissible(active_tasks[r])
    /\ tasks' = (r :> [TaskData(r) EXCEPT !.status = "queued"]) @@ tasks
    /\ tasks_lock' = 0
    /\ active_tasks' = [active_tasks EXCEPT ![r] = 0]
    /\ hpc' = [hpc EXCEPT ![r] = "queued"]
    /\ UNCHANGED <<program, vars_replies, vars_locks, vars_v2_query, vars_ws, vars_svc, vars_flask, vars_v1, vars_api, active_connections, rooms, reply, wpc, result,
                   exc, future_exc, emitted>>

\* Faulty variant: the handler answers task_created but never hands the task
\* to the executor.
RegisterAndSubmit_NoSubmit(r) ==
    /\ program = "websocket_server_v2"
    /\ hpc[r] = "queued"
    /\ rooms' = rooms \cup {<<Sid(r), r>>}
    /\ active_connections' = [active_connections EXCEPT ![Sid(r)] = r]
    /\ reply' = [reply EXCEPT ![r] = "task_created"]
    /\ hpc' = [hpc EXCEPT ![r] = "submitted"]
    /\ UNCHANGED <<program, vars_replies, vars_locks, vars_v2_query, vars_ws, vars_svc, vars_flask, vars_v1, vars_api, tasks,
                   tasks_lock, active_tasks, wpc, result, exc, future_exc, emitted>>

\* join_room(room_id); active_connections[request.sid] = {...};
\* emit('task_created', ...); future = task_executor.submit(...);
\* future.add_done_callback(task_done_callback)
RegisterAndSubmit(r) ==
    /\ program = "websocket_server_v2"
    /\ hpc[r] = "queued"
    /\ rooms' = rooms \cup {<<Sid(r), r>>}
    /\ active_connections' = [active_connections EXCEPT ![Sid(r)] = r]
    /\ reply' = [reply EXCEPT ![r] = "task_created"]
    /\ wpc' = [wpc EXCEPT ![r] = "pending"]
    /\ hpc' = [hpc EXCEPT ![r] = "submitted"]
    /\ UNCHANGED <<program, vars_replies, vars_locks, vars_v2_query, vars_ws, vars_svc, vars_flask, vars_v1, vars_api, tasks, tasks_lock, active_tasks, result, exc,
                   future_exc, emitted>>

\* What pptx_url_to_minio_images can do: raise (the download failed, or a
\* step raised), or return a PPTMinioResult dataclass instance for the
\* MaxSlides slides of the presentation.  An upload that
\* MinioService.upload_image reports as failed is only counted:
\* successful_uploads is then smaller than total_slides.
PipelineErrors == {"download failed"}

PPTMinioResults ==
    {r \in [type : {"PPTMinioResult"}, total_slides : {MaxSlides},
            successful_uploads : 0 .. MaxSlides, failed_uploads : 0 .. MaxSlides] :
        r.successful_uploads + r.failed_uploads = r.total_slides}

\* result['success']: only a mapping supports subscription; a dataclass
\* instance defines no __getitem__ and the subscription raises TypeError.
Subscriptable(res) == res.type = "dict"

NotSubscriptable == "'PPTMinioResult' object is not subscriptable"

\* ThreadPoolExecutor(max_workers=MAX_CONCURRENT_TASKS): threads that are
\* running a task (its done-callback included).
RunningWorkers ==
    Cardinality({t \in Requests : wpc[t] \notin {"none", "pending", "finished"}})

\* with tasks_lock: task = tasks[task_uuid]; task['status'] = 'processing';
\* then socketio.emit('progress_update', {status: 'processing', progress: 0})
WorkerStart(t) ==
    /\ program = "websocket_server_v2"
    /\ wpc[t] = "pending"
    /\ RunningWorkers < MAX_CONCURRENT_TASKS
    /\ CanAcquire(tasks_lock, WorkerThread(t))
    /\ tasks' = [tasks EXCEPT ![t].status = "processing"]
    /\ emitted' = [emitted EXCEPT ![t] = Append(@,
          [event |-> "progress_update", status |-> "processing", progress |-> 0,
           stored |-> tasks'[t].status])]
    /\ wpc' = [wpc EXCEPT ![t] = "pipeline"]
    /\ UNCHANGED <<program, vars_replies, vars_locks, vars_v2_query, vars_ws, vars_svc, vars_flask, vars_v1, vars_api, tasks_lock, active_connections, rooms, hpc,
                   active_tasks, reply, result, exc, future_exc>>

\* The branches of "if result['success']" (lines 227-264), reached only when
\* the subscription itself does not raise.
ResultBranch(t, res) ==
    /\ CanAcquire(tasks_lock, WorkerThread(t))
    /\ IF res.success
       THEN /\ tasks' = [tasks EXCEPT ![t] =
                  [@ EXCEPT !.status = "completed",
                            !.total_slides = res.total_slides,
                            !.processed_slides = res.successful_uploads,
                            !.progress = 100,
                            !.download_urls = res.download_urls]]
            /\ emitted' = [emitted EXCEPT ![t] = Append(@,
                  [event |-> "task_complete", status |-> "completed",
                   progress |-> 100, stored |-> tasks'[t].status])]
       ELSE /\ tasks' = [tasks EXCEPT ![t] =
                  [@ EXCEPT !.status = "failed", !.error = res.error]]
            /\ emitted' = [emitted EXCEPT ![t] = Append(@,
                  [event |-> "task_error", status |-> "failed", progress |-> 0,
                   stored |-> StatusOf(tasks', t)])]
    /\ wpc' = [wpc EXCEPT ![t] = "returned"]
    /\ UNCHANGED exc

\* Faulty variant: the except clause puts the task back in the queue.
HandleException_Requeue(t, e) ==
    /\ CanAcquire(tasks_lock, WorkerThread(t))
    /\ tasks' = [tasks EXCEPT ![t] = [@ EXCEPT !.status = "queued", !.error = e]]
    /\ emitted' = [emitted EXCEPT ![t] = Append(@,
          [event |-> "task_error", status |-> "failed", progress |-> 0,
           stored |-> StatusOf(tasks', t)])]
    /\ wpc' = [wpc EXCEPT ![t] = "returned"]

\* Faulty variant: the except clause emits task_error before it writes the
\* store.
HandleException_EmitFirst(t, e) ==
    /\ CanAcquire(tasks_lock, WorkerThread(t))
    /\ tasks' = [tasks EXCEPT ![t] = [@ EXCEPT !.status = "failed", !.error = e]]
    /\ emitted' = [emitted EXCEPT ![t] = Append(@,
          [event |-> "task_error", status |-> "failed", progress |-> 0,
           stored |-> StatusOf(tasks, t)])]
    /\ wpc' = [wpc EXCEPT ![t] = "returned"]

\* Faulty variant: the except clause also resets the stored progress to a
\* value below the one the task started with.
HandleException_LowerProgress(t, e) ==
    /\ CanAcquire(tasks_lock, WorkerThread(t))
    /\ tasks' = [tasks EXCEPT ![t] =
          [@ EXCEPT !.status = "failed", !.error = e, !.progress = -1]]
    /\ emitted' = [emitted EXCEPT ![t] = Append(@,
          [event |-> "task_error", status |-> "failed", progress |-> 0,
           stored |-> StatusOf(tasks', t)])]
    /\ wpc' = [wpc EXCEPT ![t] = "returned"]

\* Faulty variant: the except clause only reports the error, the store keeps
\* the task as it was.
HandleException_EmitOnly(t, e) ==
    /\ CanAcquire(tasks_lock, WorkerThread(t))
    /\ UNCHANGED tasks
    /\ emitted' = [emitted EXCEPT ![t] = Append(@,
          [event |-> "task_error", status |-> "failed", progress |-> 0,
           stored |-> StatusOf(tasks', t)])]
    /\ wpc' = [wpc EXCEPT ![t] = "returned"]

\* Faulty variant: the except clause marks the task failed without the error text.
HandleException_NoText(t, e) ==
    /\ CanAcquire(tasks_lock, WorkerThread(t))
    /\ tasks' = [tasks EXCEPT ![t] = [@ EXCEPT !.status = "failed"]]
    /\ emitted' = [emitted EXCEPT ![t] = Append(@,
          [event |-> "task_error", status |-> "failed", progress |-> 0,
           stored |-> StatusOf(tasks', t)])]
    /\ wpc' = [wpc EXCEPT ![t] = "returned"]

\* Faulty variant: the except clause stores the error text but leaves the
\* status as it was.
HandleException_ErrorOnly(t, e) ==
    /\ CanAcquire(tasks_lock, WorkerThread(t))
    /\ tasks' = [tasks EXCEPT ![t] = [@ EXCEPT !.error = e]]
    /\ emitted' = [emitted EXCEPT ![t] = Append(@,
          [event |-> "task_error", status |-> "failed", progress |-> 0,
           stored |-> StatusOf(tasks', t)])]
    /\ wpc' = [wpc EXCEPT ![t] = "returned"]

\* except Exception as e: with tasks_lock: if task_uuid in tasks:
\*     tasks[task_uuid]['status'] = 'failed'; tasks[task_uuid]['error'] = str(e)
\* then socketio.emit('task_error', {status: 'failed', error: str(e)}); the
\* routine returns normally and its Future is done.
HandleException(t, e) ==
    /\ CanAcquire(tasks_lock, WorkerThread(t))
    /\ tasks' = IF t \in DOMAIN tasks
                THEN [tasks EXCEPT ![t] = [@ EXCEPT !.status = "failed", !.error = e]]
                ELSE tasks
    /\ emitted' = [emitted EXCEPT ![t] = Append(@,
          [event |-> "task_error", status |-> "failed", progress |-> 0,
           stored |-> StatusOf(tasks', t)])]
    /\ wpc' = [wpc EXCEPT ![t] = "returned"]

\* result = asyncio.run(pptx_url_to_minio_images(...)); if result['success']:
\* the call raises, or it returns a PPTMinioResult whose subscription raises;
\* either exception is caught by the routine's except clause.
RunPipeline(t) ==
    /\ program = "websocket_server_v2"
    /\ wpc[t] = "pipeline"
    /\ \/ \E e \in PipelineErrors :
            /\ exc' = [exc EXCEPT ![t] = e]
            /\ HandleException(t, e)
            /\ UNCHANGED result
       \/ \E res \in PPTMinioResults :
            /\ result' = [result EXCEPT ![t] = res]
            /\ IF Subscriptable(res)
               THEN ResultBranch(t, res)
               ELSE /\ exc' = [exc EXCEPT ![t] = NotSubscriptable]
                    /\ HandleException(t, NotSubscriptable)
    /\ UNCHANGED <<program, vars_replies, vars_locks, vars_v2_query, vars_ws, vars_svc, vars_flask, vars_v1, vars_api, tasks_lock, active_connections, rooms, hpc,
                   active_tasks, reply, future_exc>>

\* Faulty variant: the done-callback reports a failure whether or not the
\* routine raised.
task_done_callback_AlwaysEmits(t) ==
    /\ program = "websocket_server_v2"
    /\ wpc[t] = "returned"
    /\ CanAcquire(tasks_lock, WorkerThread(t))
    /\ UNCHANGED tasks
    /\ emitted' = [emitted EXCEPT ![t] = Append(@,
          [event |-> "task_error", status |-> "failed", progress |-> 0,
           stored |-> StatusOf(tasks', t)])]
    /\ result' = [result EXCEPT ![t] = NoResult]
    /\ wpc' = [wpc EXCEPT ![t] = "finished"]
    /\ UNCHANGED <<program, vars_replies, vars_locks, vars_v2_query, vars_ws, vars_svc, vars_flask, vars_v1, vars_api, tasks_lock, active_connections, rooms, hpc,
                   active_tasks, reply, exc, future_exc>>

\* task_done_callback(future): future.result() re-raises what the routine
\* raised; only then is the task marked failed and task_error emitted.  The
\* routine's frame, and with it the local result, is gone by now.
task_done_callback(t) ==
    /\ program = "websocket_server_v2"
    /\ wpc[t] = "returned"
    /\ IF future_exc[t] # None
       THEN /\ CanAcquire(tasks_lock, WorkerThread(t))
            /\ tasks' = IF t \in DOMAIN tasks
                        THEN [tasks EXCEPT ![t] =
                                [@ EXCEPT !.status = "failed", !.error = future_exc[t]]]
                        ELSE tasks
            /\ emitted' = [emitted EXCEPT ![t] = Append(@,
                  [event |-> "task_error", status |-> "failed", progress |-> 0,
                   stored |-> StatusOf(tasks', t)])]
       ELSE UNCHANGED <<tasks, emitted>>
    /\ result' = [result EXCEPT ![t] = NoResult]
    /\ wpc' = [wpc EXCEPT ![t] = "finished"]
    /\ UNCHANGED <<program, vars_replies, vars_locks, vars_v2_query, vars_ws, vars_svc, vars_flask, vars_v1, vars_api, tasks_lock, active_connections, rooms, hpc,
                   active_tasks, reply, exc, future_exc>>

(* ---------------------------------------------------------------------- *)
(* websocket_server_v2.py: get_task_status and join_task, which read the   *)
(* task record after they released tasks_lock, and the except clause of    *)
(* process_ppt_task statement by statement, as such a reader sees it       *)
(* ---------------------------------------------------------------------- *)

\* Number of tasks in a run in which status queries are served.
NumQueriedTasks == 2

QueriedTasks == 1 .. NumQueriedTasks

\* Thread that handles the status query.
QueryThread == 2 * NumRequests + 1

\* No status query is being handled.
NoQuery == [pos |-> "idle", kind |-> "none", uuid |-> 0, read |-> <<>>]

\* The keys of the task record that the task_status payload is built from,
\* in the order the dict display evaluates task[...]: join_task sends no
\* 'error'.
StatusFields(kind) ==
    IF kind = "get_task_status"
    THEN <<"status", "progress", "total_slides", "processed_slides",
           "download_urls", "error">>
    ELSE <<"status", "progress", "total_slides", "processed_slides",
           "download_urls">>

\* with tasks_lock: if not task_uuid or task_uuid not in tasks:
\*     emit('error', ...); return
\* task = tasks[task_uuid]        (the lock is released at the end of the block)
task_status_lookup(kind, u) ==
    /\ program = "websocket_server_v2"
    /\ status_query.pos \in {"idle", "sent", "error"}
    /\ CanAcquire(tasks_lock, QueryThread)
    /\ status_query' =
          IF u \in DOMAIN tasks
          THEN [pos |-> IF kind = "join_task" THEN "join" ELSE "reading",
                kind |-> kind, uuid |-> u, read |-> <<>>]
          ELSE [pos |-> "error", kind |-> kind, uuid |-> u, read |-> <<>>]
    /\ UNCHANGED <<program, vars_replies, vars_locks, vars_ws, vars_svc, vars_flask, vars_v1, vars_api, vars_v2>>

\* join_task: join_room(room_id); with connections_lock:
\*     active_connections[request.sid] = {'room': room_id, 'uuid': task_uuid}
handle_join_task_register ==
    /\ program = "websocket_server_v2"
    /\ status_query.pos = "join"
    /\ CanAcquire(connections_lock, QueryThread)
    /\ rooms' = rooms \cup {<<Sid(status_query.uuid), status_query.uuid>>}
    /\ active_connections' =
          [active_connections EXCEPT ![Sid(status_query.uuid)] = status_query.uuid]
    /\ status_query' = [status_query EXCEPT !.pos = "reading"]
    /\ UNCHANGED <<program, vars_replies, vars_locks, vars_ws, vars_svc, vars_flask, vars_v1, vars_api, tasks,
                   tasks_lock, hpc, active_tasks, reply, wpc, result, exc,
                   future_exc, emitted>>

\* One task[...] of the payload is evaluated; the handler holds no lock.
task_status_read ==
    /\ program = "websocket_server_v2"
    /\ status_query.pos = "reading"
    /\ Len(status_query.read) < Len(StatusFields(status_query.kind))
    /\ LET field == StatusFields(status_query.kind)[Len(status_query.read) + 1]
       IN  status_query' = [status_query EXCEPT
               !.read = Append(@, tasks[status_query.uuid][field])]
    /\ UNCHANGED <<program, vars_replies, vars_locks, vars_ws, vars_svc, vars_flask, vars_v1, vars_api, vars_v2>>

\* emit('task_status', {...}) with the values read.
task_status_emit ==
    /\ program = "websocket_server_v2"
    /\ status_query.pos = "reading"
    /\ Len(status_query.read) = Len(StatusFields(status_query.kind))
    /\ status_query' = [status_query EXCEPT !.pos = "sent"]
    /\ UNCHANGED <<program, vars_replies, vars_locks, vars_ws, vars_svc, vars_flask, vars_v1, vars_api, vars_v2>>

\* result = asyncio.run(pptx_url_to_minio_images(...)); if result['success']:
\* the call raises, or the subscription of the returned dataclass raises;
\* control passes to the except clause.
process_ppt_task_raise(t) ==
    /\ program = "websocket_server_v2"
    /\ wpc[t] = "pipeline"
    /\ \/ \E e \in PipelineErrors :
            /\ exc' = [exc EXCEPT ![t] = e]
            /\ UNCHANGED result
       \/ \E res \in {r \in PPTMinioResults : ~Subscriptable(r)} :
            /\ result' = [result EXCEPT ![t] = res]
            /\ exc' = [exc EXCEPT ![t] = NotSubscriptable]
    /\ wpc' = [wpc EXCEPT ![t] = "except"]
    /\ UNCHANGED <<program, vars_replies, vars_locks, vars_ws, vars_svc, vars_flask, vars_v1, vars_api,
                   vars_v2_query, tasks, tasks_lock, active_connections, rooms,
                   hpc, active_tasks, reply, future_exc, emitted>>

\* except Exception as e: with tasks_lock: if task_uuid in tasks:
\*     tasks[task_uuid]['status'] = 'failed'
process_ppt_task_except_status(t) ==
    /\ program = "websocket_server_v2"
    /\ wpc[t] = "except"
    /\ CanAcquire(tasks_lock, WorkerThread(t))
    /\ tasks_lock' = WorkerThread(t)
    /\ tasks' = IF t \in DOMAIN tasks
                THEN [tasks EXCEPT ![t].status = "failed"]
                ELSE tasks
    /\ wpc' = [wpc EXCEPT ![t] = "except_error"]
    /\ UNCHANGED <<program, vars_replies, vars_locks, vars_ws, vars_svc, vars_flask, vars_v1, vars_api,
                   vars_v2_query, active_connections, rooms, hpc, active_tasks,
                   reply, result, exc, future_exc, emitted>>

\*     tasks[task_uuid]['error'] = str(e)      (end of the with block)
\* socketio.emit('task_error', {status: 'failed', error: str(e)})
process_ppt_task_except_error(t) ==
    /\ program = "websocket_server_v2"
    /\ wpc[t] = "except_error"
    /\ tasks_lock = WorkerThread(t)
    /\ tasks' = IF t \in DOMAIN tasks
                THEN [tasks EXCEPT ![t].error = exc[t]]
                ELSE tasks
    /\ tasks_lock' = 0
    /\ emitted' = [emitted EXCEPT ![t] = Append(@,
          [event |-> "task_error", status |-> "failed", progress |-> 0,
           stored |-> StatusOf(tasks', t)])]
    /\ wpc' = [wpc EXCEPT ![t] = "returned"]
    /\ UNCHANGED <<program, vars_replies, vars_locks, vars_ws, vars_svc, vars_flask, vars_v1, vars_api,
                   vars_v2_query, active_connections, rooms, hpc, active_tasks,
                   reply, result, exc, future_exc>>

(* ---------------------------------------------------------------------- *)
(* websocket_server_v2.py: the handlers and get_server_stats with the      *)
(* blocks of connections_lock entered and left as separate steps          *)
(* ---------------------------------------------------------------------- *)

\* Number of clients in a run in which the locks are followed.
NumLockClients == 2

LockClients == 1 .. NumLockClients

\* The thread that calls get_server_stats.
StatsThread == 2 * NumRequests + 2

\* handle_start_ppt_processing: join_room(room_id); with connections_lock:
register_acquire(r) ==
    /\ program = "websocket_server_v2"
    /\ hpc[r] = "queued"
    /\ CanAcquire(connections_lock, HandlerThread(r))
    /\ rooms' = rooms \cup {<<Sid(r), r>>}
    /\ connections_lock' = HandlerThread(r)
    /\ hpc' = [hpc EXCEPT ![r] = "registering"]
    /\ UNCHANGED <<program, vars_replies, vars_v2_query, vars_ws, vars_svc, vars_flask, vars_v1, vars_api,
                   stats_pc, v1_locks, v1_hpc, tasks, tasks_lock,
                   active_connections, active_tasks, reply, wpc, result, exc,
                   future_exc, emitted>>

\*     active_connections[request.sid] = {...}     (end of the with block)
\* emit('task_created', ...); future = task_executor.submit(...);
\* future.add_done_callback(task_done_callback)
register_release(r) ==
    /\ program = "websocket_server_v2"
    /\ hpc[r] = "registering"
    /\ connections_lock = HandlerThread(r)
    /\ active_connections' = [active_connections EXCEPT ![Sid(r)] = r]
    /\ connections_lock' = 0
    /\ reply' = [reply EXCEPT ![r] = "task_created"]
    /\ wpc' = [wpc EXCEPT ![r] = "pending"]
    /\ hpc' = [hpc EXCEPT ![r] = "submitted"]
    /\ UNCHANGED <<program, vars_replies, vars_v2_query, vars_ws, vars_svc, vars_flask, vars_v1, vars_api,
                   stats_pc, v1_locks, v1_hpc, tasks, tasks_lock, rooms,
                   active_tasks, result, exc, future_exc, emitted>>

\* handle_disconnect: with connections_lock:
handle_disconnect_acquire(r) ==
    /\ program = "websocket_server_v2"
    /\ hpc[r] = "submitted"
    /\ CanAcquire(connections_lock, HandlerThread(r))
    /\ connections_lock' = HandlerThread(r)
    /\ hpc' = [hpc EXCEPT ![r] = "disconnecting"]
    /\ UNCHANGED <<program, vars_replies, vars_v2_query, vars_ws, vars_svc, vars_flask, vars_v1, vars_api,
                   stats_pc, v1_locks, v1_hpc, tasks, tasks_lock,
                   active_connections, rooms, active_tasks, reply, wpc, result,
                   exc, future_exc, emitted>>

\*     if request.sid in active_connections: del active_connections[request.sid]
handle_disconnect_release(r) ==
    /\ program = "websocket_server_v2"
    /\ hpc[r] = "disconnecting"
    /\ connections_lock = HandlerThread(r)
    /\ active_connections' = [active_connections EXCEPT ![Sid(r)] = 0]
    /\ connections_lock' = 0
    /\ hpc' = [hpc EXCEPT ![r] = "disconnected"]
    /\ UNCHANGED <<program, vars_replies, vars_v2_query, vars_ws, vars_svc, vars_flask, vars_v1, vars_api,
                   stats_pc, v1_locks, v1_hpc, tasks, tasks_lock, rooms,
                   active_tasks, reply, wpc, result, exc, future_exc, emitted>>

\* get_server_stats: with tasks_lock: total_tasks = len(tasks); ... (the
\* counts are locals)
get_server_stats_tasks ==
    /\ program = "websocket_server_v2"
    /\ stats_pc = "idle"
    /\ CanAcquire(tasks_lock, StatsThread)
    /\ tasks_lock' = StatsThread
    /\ stats_pc' = "counting"
    /\ UNCHANGED <<program, vars_replies, vars_v2_query, vars_ws, vars_svc, vars_flask, vars_v1, vars_api,
                   connections_lock, v1_locks, v1_hpc, tasks, active_connections,
                   rooms, hpc, active_tasks, reply, wpc, result, exc, future_exc,
                   emitted>>

\* get_server_stats: the tasks_lock block ends.
get_server_stats_unlock ==
    /\ program = "websocket_server_v2"
    /\ stats_pc = "counting"
    /\ tasks_lock = StatsThread
    /\ tasks_lock' = 0
    /\ stats_pc' = "counted"
    /\ UNCHANGED <<program, vars_replies, vars_v2_query, vars_ws, vars_svc, vars_flask, vars_v1, vars_api,
                   connections_lock, v1_locks, v1_hpc, tasks, active_connections,
                   rooms, hpc, active_tasks, reply, wpc, result, exc, future_exc,
                   emitted>>

\* get_server_stats: with connections_lock:
get_server_stats_connections ==
    /\ program = "websocket_server_v2"
    /\ stats_pc = "counted"
    /\ CanAcquire(connections_lock, StatsThread)
    /\ connections_lock' = StatsThread
    /\ stats_pc' = "connections"
    /\ UNCHANGED <<program, vars_replies, vars_v2_query, vars_ws, vars_svc, vars_flask, vars_v1, vars_api,
                   vars_v2, v1_locks, v1_hpc>>

\*     active_connections_count = len(active_connections); return {...}
get_server_stats_return ==
    /\ program = "websocket_server_v2"
    /\ stats_pc = "connections"
    /\ connections_lock = StatsThread
    /\ connections_lock' = 0
    /\ stats_pc' = "idle"
    /\ UNCHANGED <<program, vars_replies, vars_v2_query, vars_ws, vars_svc, vars_flask, vars_v1, vars_api,
                   vars_v2, v1_locks, v1_hpc>>

(* ---------------------------------------------------------------------- *)
(* api.py                                                                  *)
(* ---------------------------------------------------------------------- *)

\* A dictionary key that has not been set.
Absent == "absent"

\* No listing was answered by the step just taken.
NoReply == [code |-> 0, total |-> 0, tasks |-> <<>>]

\* What pptx_to_images can do: raise before its own try block (COM start-up),
\* or return a PPTConversionResult dataclass instance (success or not).
ConversionErrors == {"CoInitialize failed"}

PPTConversionResults ==
    {[type |-> "PPTConversionResult", success |-> ok] : ok \in BOOLEAN}

\* len(x): defined for a list; a dataclass instance defines no __len__ and
\* len() raises TypeError.
HasLen(x) == x.type = "list"

NoLen == "object of type 'PPTConversionResult' has no len()"

\* Largest value of int(time.time()) an upload may read.
MaxTime == 2

\* timestamp = int(time.time()): the clock does not run backwards from one
\* upload to the next.
Timestamps(ts) ==
    {x \in 1 .. MaxTime : \A u \in DOMAIN ts : x >= ts[u].created_at}

\* The record upload_file stores for an accepted upload.
NewTask(t, url, ts) ==
    [id |-> t, status |-> "pending", created_at |-> ts, callback_url |-> url,
     image_paths |-> Absent, completed_at |-> Absent, error |-> Absent]

\* if not callback_url: return jsonify({'error': 'callback_url is required'}), 400
CallbackUrlMissing(url) == url = None

\* upload_file up to thread.start(): timestamp = int(time.time());
\* callback_url is required (400 otherwise); the task record is stored as
\* 'pending' and the worker thread is started.  The handler has not returned
\* yet: the response is built after thread.start().
upload_file(t) ==
    /\ program = "api"
    /\ apc[t] = "none"
    /\ form_callback_url[t] = Absent
    /\ t > 1 => form_callback_url[t - 1] # Absent
    /\ list_reply' = NoReply
    /\ \E url \in {None, "http://client/callback"}, ts \in Timestamps(api_tasks) :
         /\ form_callback_url' = [form_callback_url EXCEPT ![t] = url]
         /\ IF CallbackUrlMissing(url)
            THEN /\ api_reply' = [api_reply EXCEPT ![t] = 400]
                 /\ UNCHANGED <<api_tasks, apc>>
            ELSE /\ api_tasks' = (t :> NewTask(t, url, ts)) @@ api_tasks
                 /\ apc' = [apc EXCEPT ![t] = "start"]
                 /\ UNCHANGED api_reply
    /\ UNCHANGED <<program, vars_replies, vars_locks, vars_v2_query, vars_ws, vars_svc, vars_flask, vars_v1, vars_v2, api_exc, retry_count, cb_chains, cb_trace,
                   cb_return, cb_snapshot, terminal_replies>>

\* upload_file, after thread.start(): return jsonify({'task_id': ...,
\* 'status': 'pending', ...}), while the worker thread is already running.
upload_file_return(t) ==
    /\ program = "api"
    /\ t \in DOMAIN api_tasks
    /\ api_reply[t] = 0
    /\ api_reply' = [api_reply EXCEPT ![t] = 200]
    /\ list_reply' = NoReply
    /\ UNCHANGED <<program, vars_replies, vars_locks, vars_v2_query, vars_ws, vars_svc, vars_flask, vars_v1, vars_v2, vars_api_http, api_tasks, apc, api_exc,
                   retry_count, cb_chains, cb_trace, cb_return, cb_snapshot>>

\* tasks[task_id]['status'] = 'processing'
api_set_processing(t) ==
    /\ program = "api"
    /\ apc[t] = "start"
    /\ api_tasks' = [api_tasks EXCEPT ![t].status = "processing"]
    /\ apc' = [apc EXCEPT ![t] = "convert"]
    /\ list_reply' = NoReply
    /\ UNCHANGED <<program, vars_replies, vars_locks, vars_v2_query, vars_ws, vars_svc, vars_flask, vars_v1, vars_v2, vars_api_http, api_reply, api_exc, retry_count, cb_chains, cb_trace, cb_return, cb_snapshot>>

\* image_paths = pptx_to_images(...); tasks[task_id]['status'] = 'completed';
\* tasks[task_id]['image_paths'] = image_paths; ['completed_at'] = time.time()
api_convert(t) ==
    /\ program = "api"
    /\ apc[t] = "convert"
    /\ \/ \E e \in ConversionErrors :
            /\ api_exc' = [api_exc EXCEPT ![t] = e]
            /\ apc' = [apc EXCEPT ![t] = "except"]
            /\ UNCHANGED api_tasks
       \/ \E res \in PPTConversionResults :
            /\ api_tasks' = [api_tasks EXCEPT ![t] =
                  [@ EXCEPT !.status = "completed", !.image_paths = res,
                            !.completed_at = "set"]]
            /\ apc' = [apc EXCEPT ![t] = "log"]
            /\ UNCHANGED api_exc
    /\ list_reply' = NoReply
    /\ UNCHANGED <<program, vars_replies, vars_locks, vars_v2_query, vars_ws, vars_svc, vars_flask, vars_v1, vars_v2, vars_api_http, api_reply, retry_count,
                   cb_chains, cb_trace, cb_return, cb_snapshot>>

\* logger.info(f"... {len(image_paths)} ...")
api_log_completed(t) ==
    /\ program = "api"
    /\ apc[t] = "log"
    /\ IF HasLen(api_tasks[t].image_paths)
       THEN /\ apc' = [apc EXCEPT ![t] = "finally"]
            /\ UNCHANGED api_exc
       ELSE /\ api_exc' = [api_exc EXCEPT ![t] = NoLen]
            /\ apc' = [apc EXCEPT ![t] = "except"]
    /\ list_reply' = NoReply
    /\ UNCHANGED <<program, vars_replies, vars_locks, vars_v2_query, vars_ws, vars_svc, vars_flask, vars_v1, vars_v2, vars_api_http, api_tasks, api_reply, retry_count, cb_chains, cb_trace, cb_return, cb_snapshot>>

\* Faulty variant: the except clause records the error but not the failed status.
ExceptFailed_KeepStatus(ts, t, e) ==
    [ts EXCEPT ![t] = [@ EXCEPT !.error = e]]

\* except Exception as e: tasks[task_id]['status'] = 'failed';
\* tasks[task_id]['error'] = str(e)
ExceptFailed(ts, t, e) ==
    [ts EXCEPT ![t] = [@ EXCEPT !.status = "failed", !.error = e]]

api_except(t) ==
    /\ program = "api"
    /\ apc[t] = "except"
    /\ api_tasks' = ExceptFailed(api_tasks, t, api_exc[t])
    /\ apc' = [apc EXCEPT ![t] = "finally"]
    /\ list_reply' = NoReply
    /\ UNCHANGED <<program, vars_replies, vars_locks, vars_v2_query, vars_ws, vars_svc, vars_flask, vars_v1, vars_v2, vars_api_http, api_reply, api_exc, retry_count, cb_chains, cb_trace, cb_return, cb_snapshot>>

\* finally: if callback_url: send_callback(task_id, callback_url)
api_finally(t) ==
    /\ program = "api"
    /\ apc[t] = "finally"
    /\ IF api_tasks[t].callback_url # None
       THEN /\ cb_chains' = [cb_chains EXCEPT ![t] = @ + 1]
            /\ retry_count' = [retry_count EXCEPT ![t] = 0]
            /\ cb_snapshot' = [cb_snapshot EXCEPT ![t] = api_tasks[t]]
            /\ apc' = [apc EXCEPT ![t] = "cb_post"]
       ELSE /\ apc' = [apc EXCEPT ![t] = "done"]
            /\ UNCHANGED <<cb_chains, retry_count, cb_snapshot>>
    /\ list_reply' = NoReply
    /\ UNCHANGED <<program, vars_replies, vars_locks, vars_v2_query, vars_ws, vars_svc, vars_flask, vars_v1, vars_v2, vars_api_http, api_tasks, api_reply, api_exc, cb_trace, cb_return>>

\* Number of requests.post calls made so far for task t.
Posts(trace) == Len(SelectSeq(trace, LAMBDA x : x.kind = "post"))

\* callback_data: the fields that depend on the task's status.
CallbackData(task) ==
    [task_id |-> task.id, status |-> task.status,
     has_images |-> task.status = "completed",
     has_error |-> task.status = "failed"]

\* Faulty variant: one retry too many.
MayRetry_OffByOne(n) == n <= MAX_CALLBACK_RETRIES

\* if retry_count < MAX_CALLBACK_RETRIES: sleep and retry; else: return False
MayRetry(n) == n < MAX_CALLBACK_RETRIES

\* response.status_code >= 200 and response.status_code < 300
IsSuccess(code) == code >= 200 /\ code < 300

\* Faulty variant: a callback that is given up marks the task as failed.
GiveUp_MarkFailed(ts, t) ==
    [ts EXCEPT ![t] = [@ EXCEPT !.status = "failed", !.error = "callback failed"]]

\* logger.error("max retries reached"); return False: the store is not written.
GiveUp(ts, t) == ts

\* What requests.post can do: raise (connection error, timeout), or return a
\* response with some status code.
PostOutcomes ==
    {[raised |-> TRUE, status_code |-> 0]} \cup
    {[raised |-> FALSE, status_code |-> c] : c \in {200, 500}}

\* Whether one requests.post counted as delivered.
Delivered(o) == ~o.raised /\ IsSuccess(o.status_code)

\* One call of send_callback up to its return or its time.sleep: build the
\* payload, requests.post, then the status check (lines 408-420) or the
\* except clause (lines 422-431).
send_callback_post(t) ==
    /\ program = "api"
    /\ apc[t] = "cb_post"
    /\ \E o \in PostOutcomes :
         /\ cb_trace' = [cb_trace EXCEPT ![t] = Append(@,
               [kind |-> "post", data |-> CallbackData(api_tasks[t]),
                retry |-> retry_count[t], ok |-> Delivered(o)])]
         /\ IF o.raised
            THEN IF MayRetry(retry_count[t])
                 THEN /\ apc' = [apc EXCEPT ![t] = "cb_sleep"]
                      /\ UNCHANGED <<cb_return, api_tasks>>
                 ELSE /\ cb_return' = [cb_return EXCEPT ![t] = "False"]
                      /\ api_tasks' = GiveUp(api_tasks, t)
                      /\ apc' = [apc EXCEPT ![t] = "done"]
            ELSE IF IsSuccess(o.status_code)
                 THEN /\ cb_return' = [cb_return EXCEPT ![t] = "True"]
                      /\ apc' = [apc EXCEPT ![t] = "done"]
                      /\ UNCHANGED api_tasks
                 ELSE IF MayRetry(retry_count[t])
                      THEN /\ apc' = [apc EXCEPT ![t] = "cb_sleep"]
                           /\ UNCHANGED <<cb_return, api_tasks>>
                      ELSE /\ cb_return' = [cb_return EXCEPT ![t] = "False"]
                           /\ api_tasks' = GiveUp(api_tasks, t)
                           /\ apc' = [apc EXCEPT ![t] = "done"]
    /\ list_reply' = NoReply
    /\ UNCHANGED <<program, vars_replies, vars_locks, vars_v2_query, vars_ws, vars_svc, vars_flask, vars_v1, vars_v2, vars_api_http, api_reply, api_exc, retry_count,
                   cb_chains, cb_snapshot>>

\* Faulty variant: the retry is made at once, without the delay.
send_callback_sleep_NoDelay(t) ==
    /\ program = "api"
    /\ apc[t] = "cb_sleep"
    /\ retry_count' = [retry_count EXCEPT ![t] = @ + 1]
    /\ apc' = [apc EXCEPT ![t] = "cb_post"]
    /\ list_reply' = NoReply
    /\ UNCHANGED <<program, vars_replies, vars_locks, vars_v2_query, vars_ws, vars_svc, vars_flask, vars_v1, vars_v2, vars_api_http, api_tasks, api_reply, api_exc, cb_trace,
                   cb_chains, cb_return, cb_snapshot>>

\* time.sleep(CALLBACK_RETRY_DELAY);
\* return send_callback(task_id, callback_url, retry_count + 1)
send_callback_sleep(t) ==
    /\ program = "api"
    /\ apc[t] = "cb_sleep"
    /\ cb_trace' = [cb_trace EXCEPT ![t] = Append(@,
          [kind |-> "sleep", data |-> CALLBACK_RETRY_DELAY,
           retry |-> retry_count[t], ok |-> FALSE])]
    /\ retry_count' = [retry_count EXCEPT ![t] = @ + 1]
    /\ apc' = [apc EXCEPT ![t] = "cb_post"]
    /\ list_reply' = NoReply
    /\ UNCHANGED <<program, vars_replies, vars_locks, vars_v2_query, vars_ws, vars_svc, vars_flask, vars_v1, vars_v2, vars_api_http, api_tasks, api_reply, api_exc, cb_chains, cb_return, cb_snapshot>>

(* ---------------------------------------------------------------------- *)
(* v1/websocket_server.py and v1/api.py                                    *)
(* ---------------------------------------------------------------------- *)

\* Number of uploads to the v1 server a behaviour may contain.
NumV1Tasks == 3

V1Tasks == 1 .. NumV1Tasks

\* v1/websocket_server.py: MAX_CONCURRENT_TASKS = 10
V1_MAX_CONCURRENT_TASKS == 10

\* v1/api.py upload_file: task_data of an accepted upload, handed to add_task.
v1_upload_file(t) ==
    /\ program = "v1"
    /\ v1pc[t] = "none"
    /\ t > 1 => v1pc[t - 1] # "none"
    /\ v1_tasks' = (t :> [uuid |-> t, status |-> "uploaded", progress |-> 0,
                          total_images |-> 0, processed_images |-> 0,
                          image_paths |-> Absent, error |-> Absent]) @@ v1_tasks
    /\ v1pc' = [v1pc EXCEPT ![t] = "uploaded"]
    /\ UNCHANGED <<program, vars_replies, vars_locks, vars_v2_query, vars_ws, vars_svc, vars_flask, vars_v2, vars_api, vars_v1_exec, v1_image_paths, v1_exc, v1_emitted>>

\* The uuids a run of the v1 server may use: enough for one task more than
\* the executor has threads.
V1Uuids == 1 .. V1_MAX_CONCURRENT_TASKS + 1

\* start_task events a client may send for one uuid.
MaxStartRequests == 2

\* sum(1 for t in tasks.values() if t['status'] == 'processing')
V1ActiveTasks(ts) ==
    Cardinality({u \in DOMAIN ts : ts[u].status = "processing"})

\* Faulty variant: a task that failed may be started again.
Startable_OrFailed(task) == task.status \in {"uploaded", "failed"}

\* not (task['status'] != 'uploaded')
Startable(task) == task.status = "uploaded"

\* handle_start_task: under tasks_lock the task must be 'uploaded' and the
\* server not busy (else an error is emitted and nothing changes); it becomes
\* 'queued', the client joins the room, task_started is emitted and
\* process_images_task is submitted to the executor.
handle_start_task(t) ==
    /\ program = "v1"
    /\ t \in DOMAIN v1_tasks
    /\ v1_start_requests[t] < MaxStartRequests
    /\ v1_start_requests' = [v1_start_requests EXCEPT ![t] = @ + 1]
    /\ IF ~Startable(v1_tasks[t])
          \/ V1ActiveTasks(v1_tasks) >= V1_MAX_CONCURRENT_TASKS
       THEN UNCHANGED <<v1_tasks, v1pc, v1_submits>>
       ELSE /\ v1_tasks' = [v1_tasks EXCEPT ![t].status = "queued"]
            /\ v1pc' = [v1pc EXCEPT ![t] = "queued"]
            /\ v1_submits' = [v1_submits EXCEPT ![t] = @ + 1]
    /\ UNCHANGED <<program, vars_replies, vars_locks, vars_v2_query, vars_ws, vars_svc, vars_flask, vars_v2, vars_api, v1_image_paths, v1_exc, v1_emitted>>

\* Faulty variant: no thread counts as running, so the executor starts a
\* thread for every submitted task.
V1RunningWorkers_Unbounded ==
    Cardinality({t \in V1Uuids : FALSE})

\* ThreadPoolExecutor(max_workers=MAX_CONCURRENT_TASKS): threads that are
\* running process_images_task.
V1RunningWorkers ==
    Cardinality({t \in V1Uuids : v1pc[t] \in {"convert", "except"}})

\* process_images_task, once a thread of the executor is free:
\* with tasks_lock: task['status'] = 'processing'; then
\* socketio.emit('progress_update', {status: 'processing', progress: 0})
process_images_task_start(t) ==
    /\ program = "v1"
    /\ v1pc[t] = "queued"
    /\ V1RunningWorkers < V1_MAX_CONCURRENT_TASKS
    /\ v1_locks.tasks_lock = 0
    /\ v1_tasks' = [v1_tasks EXCEPT ![t].status = "processing"]
    /\ v1_emitted' = [v1_emitted EXCEPT ![t] = Append(@,
          [event |-> "progress_update", status |-> "processing", progress |-> 0])]
    /\ v1pc' = [v1pc EXCEPT ![t] = "convert"]
    /\ UNCHANGED <<program, vars_replies, vars_locks, vars_v2_query, vars_ws, vars_svc, vars_flask, vars_v2, vars_api, vars_v1_exec, v1_image_paths, v1_exc>>

\* The statements after total_images = len(image_paths), reached only when
\* len() does not raise: the counts and progress 100 are stored, the task is
\* marked 'completed' and task_complete is emitted.
V1RecordResult(t, paths) ==
    /\ v1_tasks' = [v1_tasks EXCEPT ![t] =
          [@ EXCEPT !.total_images = paths.len, !.processed_images = paths.len,
                    !.progress = 100, !.status = "completed",
                    !.image_paths = paths]]
    /\ v1_emitted' = [v1_emitted EXCEPT ![t] = Append(@,
          [event |-> "task_complete", status |-> "completed", progress |-> 100])]
    /\ v1pc' = [v1pc EXCEPT ![t] = "done"]
    /\ UNCHANGED v1_exc

\* image_paths = pptx_to_images(...); total_images = len(image_paths): the
\* call raises, or it returns a PPTConversionResult on which len() raises.
process_images_task_convert(t) ==
    /\ program = "v1"
    /\ v1pc[t] = "convert"
    /\ \/ \E e \in ConversionErrors :
            /\ v1_exc' = [v1_exc EXCEPT ![t] = e]
            /\ v1pc' = [v1pc EXCEPT ![t] = "except"]
            /\ UNCHANGED <<v1_tasks, v1_emitted, v1_image_paths>>
       \/ \E res \in PPTConversionResults :
            /\ v1_image_paths' = [v1_image_paths EXCEPT ![t] = res]
            /\ IF HasLen(res)
               THEN V1RecordResult(t, res)
               ELSE /\ v1_exc' = [v1_exc EXCEPT ![t] = NoLen]
                    /\ v1pc' = [v1pc EXCEPT ![t] = "except"]
                    /\ UNCHANGED <<v1_tasks, v1_emitted>>
    /\ UNCHANGED <<program, vars_replies, vars_locks, vars_v2_query, vars_ws, vars_svc, vars_flask, vars_v2, vars_api, vars_v1_exec>>

\* except Exception as e: with tasks_lock: status = 'failed', error = str(e);
\* then socketio.emit('task_error', {status: 'failed', error: str(e)})
process_images_task_except(t) ==
    /\ program = "v1"
    /\ v1pc[t] = "except"
    /\ v1_locks.tasks_lock = 0
    /\ v1_tasks' = IF t \in DOMAIN v1_tasks
                   THEN [v1_tasks EXCEPT ![t] =
                           [@ EXCEPT !.status = "failed", !.error = v1_exc[t]]]
                   ELSE v1_tasks
    /\ v1_emitted' = [v1_emitted EXCEPT ![t] = Append(@,
          [event |-> "task_error", status |-> "failed", progress |-> Absent])]
    /\ v1pc' = [v1pc EXCEPT ![t] = "done"]
    /\ UNCHANGED <<program, vars_replies, vars_locks, vars_v2_query, vars_ws, vars_svc, vars_flask, vars_v2, vars_api, vars_v1_exec, v1_image_paths, v1_exc>>

\* Conversions that return or raise within a burst (the others are still
\* inside pptx_to_images).
MaxV1Returns == 1

\* A burst of start_task events: every client sends one start_task for its
\* uuid, in the order of the uploads.
burst_start_task(t) ==
    /\ v1_start_requests[t] = 0
    /\ t > 1 => v1_start_requests[t - 1] > 0
    /\ handle_start_task(t)

\* During the burst only the first MaxV1Returns conversions come back.
burst_convert(t) ==
    /\ t <= MaxV1Returns
    /\ process_images_task_convert(t)

(* ---------------------------------------------------------------------- *)
(* v1/websocket_server.py: handle_start_task, handle_disconnect and        *)
(* get_server_stats with the lock blocks entered and left as separate      *)
(* steps                                                                   *)
(* ---------------------------------------------------------------------- *)

\* The thread that handles the events of the client of task t.
V1HandlerThread(t) == t

\* handle_start_task: with tasks_lock:
v1_start_task_acquire(t) ==
    /\ program = "v1"
    /\ v1_hpc[t] = "idle"
    /\ t \in DOMAIN v1_tasks
    /\ v1_locks.tasks_lock = 0
    /\ v1_locks' = [v1_locks EXCEPT !.tasks_lock = V1HandlerThread(t)]
    /\ v1_hpc' = [v1_hpc EXCEPT ![t] = "locked"]
    /\ UNCHANGED <<program, vars_replies, vars_v2_query, vars_ws, vars_svc, vars_flask, vars_v2, vars_api,
                   vars_v1, connections_lock, stats_pc>>

\*     the task must be 'uploaded' and fewer than MAX_CONCURRENT_TASKS tasks
\*     'processing' (else emit('error', ...); return);
\*     task['status'] = 'queued'                  (end of the with block)
v1_start_task_decide(t) ==
    /\ program = "v1"
    /\ v1_hpc[t] = "locked"
    /\ v1_locks.tasks_lock = V1HandlerThread(t)
    /\ v1_start_requests' = [v1_start_requests EXCEPT ![t] = @ + 1]
    /\ IF ~Startable(v1_tasks[t])
          \/ V1ActiveTasks(v1_tasks) >= V1_MAX_CONCURRENT_TASKS
       THEN /\ v1_hpc' = [v1_hpc EXCEPT ![t] = "refused"]
            /\ v1_locks' = [v1_locks EXCEPT !.tasks_lock = 0]
            /\ UNCHANGED v1_tasks
       ELSE /\ v1_tasks' = [v1_tasks EXCEPT ![t].status = "queued"]
            /\ v1_hpc' = [v1_hpc EXCEPT ![t] = "admitted"]
            /\ v1_locks' = [v1_locks EXCEPT !.tasks_lock = 0]
    /\ UNCHANGED <<program, vars_replies, vars_v2_query, vars_ws, vars_svc, vars_flask, vars_v2, vars_api,
                   connections_lock, stats_pc, v1pc, v1_image_paths, v1_exc,
                   v1_emitted, v1_submits>>

\* join_room(room_id); with connections_lock:
v1_register_acquire(t) ==
    /\ program = "v1"
    /\ v1_hpc[t] = "admitted"
    /\ v1_locks.connections_lock = 0
    /\ v1_locks' = [v1_locks EXCEPT !.connections_lock = V1HandlerThread(t)]
    /\ v1_hpc' = [v1_hpc EXCEPT ![t] = "registering"]
    /\ UNCHANGED <<program, vars_replies, vars_v2_query, vars_ws, vars_svc, vars_flask, vars_v2, vars_api,
                   vars_v1, connections_lock, stats_pc>>

\*     active_connections[request.sid] = {...}     (end of the with block)
\* emit('task_started', ...); future = task_executor.submit(...)
v1_register_release(t) ==
    /\ program = "v1"
    /\ v1_hpc[t] = "registering"
    /\ v1_locks.connections_lock = V1HandlerThread(t)
    /\ v1_locks' = [v1_locks EXCEPT !.connections_lock = 0]
    /\ v1pc' = [v1pc EXCEPT ![t] = "queued"]
    /\ v1_submits' = [v1_submits EXCEPT ![t] = @ + 1]
    /\ v1_hpc' = [v1_hpc EXCEPT ![t] = "submitted"]
    /\ UNCHANGED <<program, vars_replies, vars_v2_query, vars_ws, vars_svc, vars_flask, vars_v2, vars_api,
                   connections_lock, stats_pc, v1_tasks, v1_image_paths, v1_exc,
                   v1_emitted, v1_start_requests>>

\* handle_disconnect: with connections_lock:
v1_disconnect_acquire(t) ==
    /\ program = "v1"
    /\ v1_hpc[t] \in {"submitted", "refused"}
    /\ v1_locks.connections_lock = 0
    /\ v1_locks' = [v1_locks EXCEPT !.connections_lock = V1HandlerThread(t)]
    /\ v1_hpc' = [v1_hpc EXCEPT ![t] = "disconnecting"]
    /\ UNCHANGED <<program, vars_replies, vars_v2_query, vars_ws, vars_svc, vars_flask, vars_v2, vars_api,
                   vars_v1, connections_lock, stats_pc>>

\*     if request.sid in active_connections: del active_connections[request.sid]
v1_disconnect_release(t) ==
    /\ program = "v1"
    /\ v1_hpc[t] = "disconnecting"
    /\ v1_locks.connections_lock = V1HandlerThread(t)
    /\ v1_locks' = [v1_locks EXCEPT !.connections_lock = 0]
    /\ v1_hpc' = [v1_hpc EXCEPT ![t] = "disconnected"]
    /\ UNCHANGED <<program, vars_replies, vars_v2_query, vars_ws, vars_svc, vars_flask, vars_v2, vars_api,
                   vars_v1, connections_lock, stats_pc>>

\* get_server_stats of the v1 server: the tasks_lock block, then the
\* connections_lock block.
v1_get_server_stats ==
    /\ program = "v1"
    /\ \/ /\ stats_pc = "idle"
          /\ v1_locks.tasks_lock = 0
          /\ v1_locks' = [v1_locks EXCEPT !.tasks_lock = StatsThread]
          /\ stats_pc' = "counting"
       \/ /\ stats_pc = "counting"
          /\ v1_locks' = [v1_locks EXCEPT !.tasks_lock = 0]
          /\ stats_pc' = "counted"
       \/ /\ stats_pc = "counted"
          /\ v1_locks.connections_lock = 0
          /\ v1_locks' = [v1_locks EXCEPT !.connections_lock = StatsThread]
          /\ stats_pc' = "connections"
       \/ /\ stats_pc = "connections"
          /\ v1_locks' = [v1_locks EXCEPT !.connections_lock = 0]
          /\ stats_pc' = "idle"
    /\ UNCHANGED <<program, vars_replies, vars_v2_query, vars_ws, vars_svc, vars_flask, vars_v2, vars_api,
                   vars_v1, connections_lock, v1_hpc>>

(* ---------------------------------------------------------------------- *)
(* flask_server.py                                                         *)
(* ---------------------------------------------------------------------- *)

\* Number of upload sessions a behaviour may contain.
NumSessions == 3

Sessions == 1 .. NumSessions

\* PPTService.upload_ppt: the session record of an accepted upload.
upload_ppt(s) ==
    /\ program = "flask_server"
    /\ s \notin DOMAIN sessions
    /\ s > 1 => (s - 1) \in DOMAIN sessions
    /\ sessions' = (s :> [status |-> "uploaded", conversion_result |-> NoResult,
                          error |-> Absent]) @@ sessions
    /\ UNCHANGED <<program, vars_replies, vars_locks, vars_v2_query, vars_ws, vars_svc, vars_v2, vars_api, vars_v1, convert_reply,
                   convert_pc>>

\* Number of POST /convert/<session_id> requests a behaviour may contain;
\* app.run(threaded=True) handles each in a thread of its own.
NumConvertCalls == 3

ConvertCalls == 1 .. NumConvertCalls

\* A request that has not arrived.
NoCall == [pos |-> "none", session |-> 0]

\* Faulty variant: a session that is 'completed' may be converted again.
Convertible_OrCompleted(session) == session.status \in {"uploaded", "completed"}

\* not (session['status'] != 'uploaded')
Convertible(session) == session.status = "uploaded"

\* PPTService.convert_ppt, its two checks: an unknown session id or a
\* session that is not 'uploaded' raises ValueError (the route answers 400);
\* otherwise the call goes on.  No lock is held.
convert_ppt_check(c, s) ==
    /\ program = "flask_server"
    /\ convert_pc[c].pos = "none"
    /\ c > 1 => convert_pc[c - 1].pos # "none"
    /\ IF s \notin DOMAIN sessions
       THEN /\ convert_reply' = [convert_reply EXCEPT ![c] = "ValueError"]
            /\ convert_pc' = [convert_pc EXCEPT ![c] = [pos |-> "done", session |-> s]]
       ELSE IF ~Convertible(sessions[s])
       THEN /\ convert_reply' = [convert_reply EXCEPT ![c] = "ValueError"]
            /\ convert_pc' = [convert_pc EXCEPT ![c] = [pos |-> "done", session |-> s]]
       ELSE /\ convert_pc' = [convert_pc EXCEPT ![c] = [pos |-> "checked", session |-> s]]
            /\ UNCHANGED convert_reply
    /\ UNCHANGED <<program, vars_replies, vars_locks, vars_v2_query, vars_ws, vars_svc, vars_v2, vars_api, vars_v1, sessions>>

\* try: session['status'] = 'converting'; output_dir.mkdir(exist_ok=True);
\* pptx_to_images(...) is called.
convert_ppt_start(c) ==
    /\ program = "flask_server"
    /\ convert_pc[c].pos = "checked"
    /\ sessions' = [sessions EXCEPT ![convert_pc[c].session].status = "converting"]
    /\ convert_pc' = [convert_pc EXCEPT ![c].pos = "converting"]
    /\ UNCHANGED <<program, vars_replies, vars_locks, vars_v2_query, vars_ws, vars_svc, vars_v2, vars_api, vars_v1, convert_reply>>

\* result = pptx_to_images(...); session['status'] = 'completed';
\* session['conversion_result'] = result.to_dict(); return {...}
\* except Exception as e: session['status'] = 'failed';
\* session['error'] = str(e); raise
convert_ppt_finish(c) ==
    /\ program = "flask_server"
    /\ convert_pc[c].pos = "converting"
    /\ LET s == convert_pc[c].session
       IN  \/ \E e \in ConversionErrors :
                /\ sessions' = [sessions EXCEPT ![s] =
                      [@ EXCEPT !.status = "failed", !.error = e]]
                /\ convert_reply' = [convert_reply EXCEPT ![c] = "raised"]
           \/ \E res \in PPTConversionResults :
                /\ sessions' = [sessions EXCEPT ![s] =
                      [@ EXCEPT !.status = "completed", !.conversion_result = res]]
                /\ convert_reply' = [convert_reply EXCEPT ![c] = "completed"]
    /\ convert_pc' = [convert_pc EXCEPT ![c].pos = "done"]
    /\ UNCHANGED <<program, vars_replies, vars_locks, vars_v2_query, vars_ws, vars_svc, vars_v2, vars_api, vars_v1>>

\* No GET /stream request received yet.
NoStream == [pos |-> "idle", session |-> 0, error |-> None, status |-> 0, body |-> None]

\* What the client gets when the response iterator raises before its first
\* chunk.  No header has been written yet: a WSGI server answers 500 in
\* place of the response; under app.run(debug=True) the debugger middleware
\* catches the exception, cannot replace the status the response has already
\* set, and the server sends that status, 200, with an empty body.
FailedStreamOutcomes ==
    {[status |-> 500, body |-> "error page"], [status |-> 200, body |-> "empty"]}

\* PPTService.get_image_stream, the checks at the head of its body: the
\* ValueError they raise, or None.
get_image_stream_error(s, file_exists) ==
    IF s \notin DOMAIN sessions THEN "session does not exist"
    ELSE IF sessions[s].status # "completed" THEN "conversion not finished"
    ELSE IF ~file_exists THEN "image file does not exist"
    ELSE None

\* stream_image, the route: get_image_stream holds a yield, so the call in
\* generate() only makes a generator and runs none of its body; the try
\* block builds Response(generate(), ...) and returns it.  Neither except
\* clause of the route can be entered.
stream_image(s) ==
    /\ program = "flask_server"
    /\ stream_reply.pos = "idle"
    /\ stream_reply' = [stream_reply EXCEPT !.pos = "response", !.session = s]
    /\ UNCHANGED <<program, vars_locks, vars_v2_query, vars_ws, vars_svc, vars_v2,
                   vars_api, vars_v1, vars_flask, callback_data>>

\* The WSGI server takes the first chunk of the returned response: now the
\* body of get_image_stream runs.  A ValueError it raises is outside the
\* route's try block and outside Flask's error handlers.  Otherwise the
\* answer is 200 and the file's bytes.
stream_image_iterate ==
    /\ program = "flask_server"
    /\ stream_reply.pos = "response"
    /\ \E file_exists \in BOOLEAN :
         LET e == get_image_stream_error(stream_reply.session, file_exists)
         IN  \E o \in IF e # None THEN FailedStreamOutcomes
                      ELSE {[status |-> 200, body |-> "image"]} :
                stream_reply' = [stream_reply EXCEPT
                    !.pos = "answered", !.error = e,
                    !.status = o.status, !.body = o.body]
    /\ UNCHANGED <<program, vars_locks, vars_v2_query, vars_ws, vars_svc, vars_v2,
                   vars_api, vars_v1, vars_flask, callback_data>>

(* ---------------------------------------------------------------------- *)
(* api.py as run and restarted by windows_service.py: the result root,     *)
(* recovery at module load, and the process being killed                   *)
(* ---------------------------------------------------------------------- *)

\* Number of directory names (task ids) under the result root.
NumDirs == 2

\* Largest number of .png files in one result directory.
MaxPngs == 2

\* Times the process may be killed and restarted in one behaviour.
MaxRestarts == 1

Dirs == 1 .. NumDirs

\* File names of the .png artifacts, ordered as their names compare.
PngNames == 1 .. MaxPngs

\* A name under results/ that is no directory, and the possible directories:
\* their .png files and whether a file of another kind is there too.
NoDir == [exists |-> FALSE, pngs |-> {}, other |-> FALSE]

DirContents == [exists : {TRUE}, pngs : SUBSET PngNames, other : BOOLEAN]

Extensions == {".ppt", ".pptx"}

RECURSIVE Ascending(_)
Ascending(S) ==
    IF S = {} THEN <<>>
    ELSE LET m == CHOOSE x \in S : \A y \in S : x <= y
         IN  <<m>> \o Ascending(S \ {m})

Reverse(seq) == [i \in 1 .. Len(seq) |-> seq[Len(seq) + 1 - i]]

\* os.listdir(task_path): the directory's entries in an order the file system
\* chooses (here: by name, upwards or downwards).
ListDir(dir, desc) ==
    LET names == Ascending(dir.pngs \cup (IF dir.other THEN {0} ELSE {}))
        files == [i \in 1 .. Len(names) |->
                    [name |-> names[i],
                     ext |-> IF names[i] = 0 THEN ".txt" ELSE ".png"]]
    IN  IF desc THEN Reverse(files) ELSE files

\* f.endswith('.png')
EndsWithPng(f) == f.ext = ".png"

\* Faulty variant: the files are taken in the order listdir gave them.
sorted_AsListed(seq) == seq

\* sorted(image_files): insertion of each element into an ascending sequence.
RECURSIVE sorted(_)
sorted(seq) ==
    IF seq = <<>> THEN <<>>
    ELSE LET rest == sorted(Tail(seq))
             x == Head(seq)
             below == SelectSeq(rest, LAMBDA y : y.name < x.name)
             above == SelectSeq(rest, LAMBDA y : ~(y.name < x.name))
         IN  below \o <<x>> \o above

\* The record load_existing_tasks rebuilds for directory d: the first of
\* uploads/<d>.ppt, uploads/<d>.pptx that exists (else ''), and the sorted
\* image files.
RecoveredTask(d, image_files, upload) ==
    [id |-> d, status |-> "completed", ppt_path |-> upload, callback_url |-> "",
     image_paths |-> [i \in 1 .. Len(sorted(image_files)) |->
                         sorted(image_files)[i].name]]

\* image_files = [f for f in os.listdir(task_path) if f.endswith('.png')]
ImageFiles(dir, desc) == SelectSeq(ListDir(dir, desc), EndsWithPng)

\* load_existing_tasks(), called once while api.py is being loaded: every
\* directory with at least one .png becomes a 'completed' task.
load_existing_tasks ==
    /\ program = "api_service"
    /\ ~booted
    /\ \E desc \in BOOLEAN :
         svc_tasks' =
            [d \in {x \in Dirs : /\ result_folder[x].exists
                                 /\ ImageFiles(result_folder[x], desc) # <<>>} |->
                RecoveredTask(d, ImageFiles(result_folder[d], desc),
                              upload_folder[d])] @@ svc_tasks
    /\ loads' = loads + 1
    /\ booted' = TRUE
    /\ UNCHANGED <<program, vars_replies, vars_locks, vars_v2_query, vars_ws, vars_flask, vars_v2, vars_api, vars_v1, result_folder,
                   upload_folder, svc_pc, restarts, status_at_kill, query_reply>>

\* Faulty variant: requests are served while the module is still loading.
Serving_BeforeLoad(b) == TRUE

\* app.run() is the last statement of the module: a request handler runs
\* only after every module-level statement, load_existing_tasks() included.
Serving(b) == b

\* upload_file: a fresh task id; results/<id> is created and the file saved
\* before callback_url is checked (400 without it); the 'pending' record is
\* stored and the worker thread started.
svc_upload_file(d) ==
    /\ program = "api_service"
    /\ Serving(booted)
    /\ ~result_folder[d].exists
    /\ svc_pc[d] = "none"
    /\ result_folder' = [result_folder EXCEPT ![d] =
          [exists |-> TRUE, pngs |-> {}, other |-> FALSE]]
    /\ \E ext \in Extensions, url \in {None, "http://client/callback"} :
         /\ upload_folder' = [upload_folder EXCEPT ![d] = ext]
         /\ IF url = None
            THEN /\ svc_pc' = [svc_pc EXCEPT ![d] = "rejected"]
                 /\ UNCHANGED svc_tasks
            ELSE /\ svc_tasks' = (d :> [id |-> d, status |-> "pending",
                                        ppt_path |-> ext, callback_url |-> url,
                                        image_paths |-> <<>>]) @@ svc_tasks
                 /\ svc_pc' = [svc_pc EXCEPT ![d] = "pending"]
    /\ UNCHANGED <<program, vars_replies, vars_locks, vars_v2_query, vars_ws, vars_flask, vars_v2, vars_api, vars_v1, booted, loads,
                   restarts, status_at_kill, query_reply>>

\* process_ppt_task: tasks[task_id]['status'] = 'processing'
svc_set_processing(d) ==
    /\ program = "api_service"
    /\ svc_pc[d] = "pending"
    /\ svc_tasks' = [svc_tasks EXCEPT ![d].status = "processing"]
    /\ svc_pc' = [svc_pc EXCEPT ![d] = "processing"]
    /\ UNCHANGED <<program, vars_replies, vars_locks, vars_v2_query, vars_ws, vars_flask, vars_v2, vars_api, vars_v1, result_folder,
                   upload_folder, booted, loads, restarts, status_at_kill,
                   query_reply>>

\* pptx_to_images, called by the worker with output_dir = results/<id>:
\* slide.Export writes one more .png into the directory.
svc_export_slide(d) ==
    /\ program = "api_service"
    /\ svc_pc[d] = "processing"
    /\ \E n \in PngNames \ result_folder[d].pngs :
         result_folder' = [result_folder EXCEPT ![d].pngs = @ \cup {n}]
    /\ UNCHANGED <<program, vars_replies, vars_locks, vars_v2_query, vars_ws, vars_flask, vars_v2, vars_api, vars_v1, upload_folder,
                   svc_tasks, svc_pc, booted, loads, restarts, status_at_kill,
                   query_reply>>

\* process_ppt_task after pptx_to_images: the call raised and the except
\* clause stores 'failed'; or it returned and 'completed' is stored.
svc_convert_return(d) ==
    /\ program = "api_service"
    /\ svc_pc[d] = "processing"
    /\ \/ /\ svc_tasks' = [svc_tasks EXCEPT ![d].status = "failed"]
          /\ svc_pc' = [svc_pc EXCEPT ![d] = "finished"]
       \/ /\ svc_tasks' = [svc_tasks EXCEPT ![d].status = "completed"]
          /\ svc_pc' = [svc_pc EXCEPT ![d] = "log"]
    /\ UNCHANGED <<program, vars_replies, vars_locks, vars_v2_query, vars_ws, vars_flask, vars_v2, vars_api, vars_v1, result_folder,
                   upload_folder, booted, loads, restarts, status_at_kill,
                   query_reply>>

\* process_ppt_task: len(image_paths) in the log line raises on the
\* PPTConversionResult and the except clause stores 'failed'.
svc_log_completed(d) ==
    /\ program = "api_service"
    /\ svc_pc[d] = "log"
    /\ svc_tasks' = [svc_tasks EXCEPT ![d].status = "failed"]
    /\ svc_pc' = [svc_pc EXCEPT ![d] = "finished"]
    /\ UNCHANGED <<program, vars_replies, vars_locks, vars_v2_query, vars_ws, vars_flask, vars_v2, vars_api, vars_v1, result_folder,
                   upload_folder, booted, loads, restarts, status_at_kill,
                   query_reply>>

\* get_task_status: 404 for an unknown id, else the stored status.
get_task_status(d) ==
    /\ program = "api_service"
    /\ Serving(booted)
    /\ query_reply' = IF d \in DOMAIN svc_tasks THEN svc_tasks[d].status ELSE "404"
    /\ UNCHANGED <<program, vars_replies, vars_locks, vars_v2_query, vars_ws, vars_flask, vars_v2, vars_api, vars_v1, result_folder,
                   upload_folder, svc_tasks, svc_pc, booted, loads, restarts,
                   status_at_kill>>

\* The api.py process dies (at any point) and PPTProcessingService.main
\* starts it again: memory and threads are gone, the folders stay.
kill_and_restart ==
    /\ program = "api_service"
    /\ restarts < MaxRestarts
    /\ restarts' = restarts + 1
    /\ status_at_kill' = [d \in Dirs |->
          IF d \in DOMAIN svc_tasks THEN svc_tasks[d].status ELSE "none"]
    /\ svc_tasks' = <<>>
    /\ svc_pc' = [d \in Dirs |-> IF svc_pc[d] = "none" THEN "none" ELSE "dead"]
    /\ booted' = FALSE
    /\ loads' = 0
    /\ query_reply' = None
    /\ UNCHANGED <<program, vars_replies, vars_locks, vars_v2_query, vars_ws, vars_flask, vars_v2, vars_api, vars_v1, result_folder,
                   upload_folder>>

(* ---------------------------------------------------------------------- *)
(* websocket_server.py: the asyncio server, its worker threads and the      *)
(* notifications they send                                                 *)
(* ---------------------------------------------------------------------- *)

\* Number of presentations uploaded in a behaviour.
NumWsTasks == 2

WsTasks == 1 .. NumWsTasks

\* Number of client connections; a client may upload several presentations
\* over one connection.
NumWsClients == 2

WsClients == 1 .. NumWsClients

\* The websocket of the client that uploaded task t.
WsClient(t) == ws_websocket[t]

\* str(e) of the KeyError that connected_clients[task_id] raises.
KeyErrorText == "KeyError: task_id"

\* handle_client: a client connects and the welcome message is sent.  A
\* connection on which nothing is uploaded affects no other; so the clients
\* are numbered in the order of their first upload.
handle_client(c) ==
    /\ program = "websocket_server"
    /\ ws_client[c] = "none"
    /\ c > 1 => \E u \in WsTasks : ws_websocket[u] = c - 1
    /\ ws_client' = [ws_client EXCEPT ![c] = "open"]
    /\ UNCHANGED <<program, vars_replies, vars_locks, vars_v2_query, vars_svc, vars_flask, vars_v1, vars_v2, vars_api,
                   ws_tasks, connected_clients, ws_pc, ws_exc, vars_ws_io>>

\* The connection of a client breaks (or the client closes it); sends to it
\* raise ConnectionClosed from now on, and "async for message in websocket"
\* ends once the messages already received are handled.
connection_lost(c) ==
    /\ program = "websocket_server"
    /\ ws_client[c] = "open"
    /\ ws_client' = [ws_client EXCEPT ![c] = "lost"]
    /\ UNCHANGED <<program, vars_replies, vars_locks, vars_v2_query, vars_svc, vars_flask, vars_v1, vars_v2, vars_api,
                   ws_tasks, connected_clients, ws_pc, ws_exc, vars_ws_io>>

\* Faulty variant: the worker thread is started without registering the
\* client's websocket for the task.
handle_upload_Unregistered(t, c) ==
    /\ program = "websocket_server"
    /\ ws_client[c] \in {"open", "lost"}
    /\ ws_pc[t].pos = "none"
    /\ t > 1 => ws_pc[t - 1].pos # "none"
    /\ ws_tasks' = (t :> [id |-> t, status |-> "pending", image_paths |-> NoResult,
                          error |-> Absent]) @@ ws_tasks
    /\ ws_websocket' = [ws_websocket EXCEPT ![t] = c]
    /\ ws_delivered' = [ws_delivered EXCEPT ![t] =
          IF ws_client[c] = "open" THEN Append(@, "task_created") ELSE @]
    /\ ws_pc' = [ws_pc EXCEPT ![t] = [pos |-> "start", call |-> 0]]
    /\ UNCHANGED <<program, vars_replies, vars_locks, vars_v2_query, vars_svc, vars_flask, vars_v1, vars_v2, vars_api,
                   connected_clients, ws_client, ws_exc, ws_cleanup>>

\* handle_upload: the task record is stored as 'pending', the client's
\* websocket is registered under the task id, task_created is sent
\* (send_message only logs a ConnectionClosed) and the worker thread is
\* started.
handle_upload(t, c) ==
    /\ program = "websocket_server"
    /\ ws_client[c] \in {"open", "lost"}
    /\ ws_pc[t].pos = "none"
    /\ t > 1 => ws_pc[t - 1].pos # "none"
    /\ ws_tasks' = (t :> [id |-> t, status |-> "pending", image_paths |-> NoResult,
                          error |-> Absent]) @@ ws_tasks
    /\ connected_clients' = (t :> c) @@ connected_clients
    /\ ws_websocket' = [ws_websocket EXCEPT ![t] = c]
    /\ ws_delivered' = [ws_delivered EXCEPT ![t] =
          IF ws_client[c] = "open" THEN Append(@, "task_created") ELSE @]
    /\ ws_pc' = [ws_pc EXCEPT ![t] = [pos |-> "start", call |-> 0]]
    /\ UNCHANGED <<program, vars_replies, vars_locks, vars_v2_query, vars_svc, vars_flask, vars_v1, vars_v2, vars_api,
                   ws_client, ws_exc, ws_cleanup>>

\* handle_client, finally clause, entered when the connection is closed and
\* the handler of its last message has returned:
\* list(connected_clients.items()), of which the loop visits the entries
\* whose ws == websocket.  It runs in the event loop's thread, at any point
\* of the worker threads.
handle_client_cleanup(c) ==
    /\ program = "websocket_server"
    /\ ws_client[c] = "lost"
    /\ ws_client' = [ws_client EXCEPT ![c] = "cleaning"]
    /\ ws_cleanup' = [ws_cleanup EXCEPT ![c] =
          Ascending({t \in DOMAIN connected_clients : connected_clients[t] = c})]
    /\ UNCHANGED <<program, vars_replies, vars_locks, vars_v2_query, vars_svc, vars_flask, vars_v1, vars_v2, vars_api,
                   ws_tasks, connected_clients, ws_pc, ws_exc, ws_websocket, ws_delivered>>

\* The loop of the finally clause: del connected_clients[task_id] for the
\* next entry of the list; KeyError, which ends the loop and the coroutine,
\* when a worker thread has deleted the entry since the list was taken.
handle_client_cleanup_del(c) ==
    /\ program = "websocket_server"
    /\ ws_client[c] = "cleaning"
    /\ IF ws_cleanup[c] = <<>>
       THEN /\ ws_client' = [ws_client EXCEPT ![c] = "closed"]
            /\ UNCHANGED <<connected_clients, ws_cleanup>>
       ELSE IF Head(ws_cleanup[c]) \in DOMAIN connected_clients
       THEN /\ connected_clients' =
                  [u \in DOMAIN connected_clients \ {Head(ws_cleanup[c])} |->
                      connected_clients[u]]
            /\ ws_cleanup' = [ws_cleanup EXCEPT ![c] = Tail(@)]
            /\ UNCHANGED ws_client
       ELSE /\ ws_client' = [ws_client EXCEPT ![c] = "closed"]
            /\ ws_cleanup' = [ws_cleanup EXCEPT ![c] = <<>>]
            /\ UNCHANGED connected_clients
    /\ UNCHANGED <<program, vars_replies, vars_locks, vars_v2_query, vars_svc, vars_flask, vars_v1, vars_v2, vars_api,
                   ws_tasks, ws_pc, ws_exc, ws_websocket, ws_delivered>>

\* process_ppt_task: tasks[task_id]['status'] = 'processing'; then the first
\* asyncio.run(self.notify_client(...)) is entered.
ws_set_processing(t) ==
    /\ program = "websocket_server"
    /\ ws_pc[t].pos = "start"
    /\ ws_tasks' = [ws_tasks EXCEPT ![t].status = "processing"]
    /\ ws_pc' = [ws_pc EXCEPT ![t] = [pos |-> "notify_check", call |-> 1]]
    /\ UNCHANGED <<program, vars_replies, vars_locks, vars_v2_query, vars_svc, vars_flask, vars_v1, vars_v2, vars_api,
                   connected_clients, ws_client, ws_exc, vars_ws_io>>

\* Where process_ppt_task goes on when notify_client returns: after the
\* first call (line 367) to the conversion, after the others (385, 407) to
\* its end.
AfterNotify(pc) ==
    IF pc.call = 1 THEN [pos |-> "convert", call |-> 0]
    ELSE [pos |-> "done", call |-> 0]

\* An exception leaves notify_client: inside the try block of
\* process_ppt_task (calls at 367 and 385) the except clause catches it; in
\* the except clause itself (call at 407) it ends the thread.
NotifyRaises(t, e) ==
    IF ws_pc[t].call \in {1, 2}
    THEN /\ ws_exc' = [ws_exc EXCEPT ![t] = e]
         /\ ws_pc' = [ws_pc EXCEPT ![t] = [pos |-> "except", call |-> 0]]
    ELSE /\ ws_pc' = [ws_pc EXCEPT ![t] = [pos |-> "died", call |-> 0]]
         /\ UNCHANGED ws_exc

\* notify_client: if task_id in connected_clients:
notify_client_check(t) ==
    /\ program = "websocket_server"
    /\ ws_pc[t].pos = "notify_check"
    /\ ws_pc' = [ws_pc EXCEPT ![t] =
          IF t \in DOMAIN connected_clients
          THEN [pos |-> "notify_get", call |-> @.call]
          ELSE AfterNotify(@)]
    /\ UNCHANGED <<program, vars_replies, vars_locks, vars_v2_query, vars_svc, vars_flask, vars_v1, vars_v2, vars_api,
                   ws_tasks, connected_clients, ws_client, ws_exc, vars_ws_io>>

\* notify_client: websocket = connected_clients[task_id], outside the try
\* block: KeyError when the entry was deleted since the membership test.
notify_client_get(t) ==
    /\ program = "websocket_server"
    /\ ws_pc[t].pos = "notify_get"
    /\ IF t \in DOMAIN connected_clients
       THEN /\ ws_pc' = [ws_pc EXCEPT ![t] = [pos |-> "notify_send", call |-> @.call]]
            /\ UNCHANGED ws_exc
       ELSE NotifyRaises(t, KeyErrorText)
    /\ UNCHANGED <<program, vars_replies, vars_locks, vars_v2_query, vars_svc, vars_flask, vars_v1, vars_v2, vars_api,
                   ws_tasks, connected_clients, ws_client, vars_ws_io>>

\* What websocket.send can do inside send_message, called from the worker
\* thread's own event loop: deliver the message or raise an exception other
\* than ConnectionClosed (send_message re-raises it) while the connection is
\* up; raise ConnectionClosed (send_message only logs it) once it is closed.
SendOutcomes(c) ==
    IF ws_client[c] = "open" THEN {"sent", "error"}
    ELSE {"ConnectionClosed", "error"}

\* The type of the message each notify_client call of process_ppt_task sends.
NotifyMessage(call) ==
    IF call = 1 THEN "task_update"
    ELSE IF call = 2 THEN "task_completed" ELSE "task_failed"

\* notify_client: try: await self.send_message(websocket, message)
\* except Exception: the connection is to be removed.
notify_client_send(t) ==
    /\ program = "websocket_server"
    /\ ws_pc[t].pos = "notify_send"
    /\ \E o \in SendOutcomes(WsClient(t)) :
         /\ ws_pc' = [ws_pc EXCEPT ![t] =
               IF o = "error" THEN [pos |-> "notify_drop_check", call |-> @.call]
               ELSE AfterNotify(@)]
         /\ ws_delivered' = [ws_delivered EXCEPT ![t] =
               IF o = "sent" THEN Append(@, NotifyMessage(ws_pc[t].call)) ELSE @]
    /\ UNCHANGED <<program, vars_replies, vars_locks, vars_v2_query, vars_svc, vars_flask, vars_v1, vars_v2, vars_api,
                   ws_tasks, connected_clients, ws_client, ws_exc, ws_websocket, ws_cleanup>>

\* notify_client, except clause: if task_id in connected_clients:
notify_client_drop_check(t) ==
    /\ program = "websocket_server"
    /\ ws_pc[t].pos = "notify_drop_check"
    /\ ws_pc' = [ws_pc EXCEPT ![t] =
          IF t \in DOMAIN connected_clients
          THEN [pos |-> "notify_drop", call |-> @.call]
          ELSE AfterNotify(@)]
    /\ UNCHANGED <<program, vars_replies, vars_locks, vars_v2_query, vars_svc, vars_flask, vars_v1, vars_v2, vars_api,
                   ws_tasks, connected_clients, ws_client, ws_exc, vars_ws_io>>

\* notify_client, except clause: del connected_clients[task_id]: KeyError
\* when the entry was deleted since the membership test.
notify_client_drop(t) ==
    /\ program = "websocket_server"
    /\ ws_pc[t].pos = "notify_drop"
    /\ IF t \in DOMAIN connected_clients
       THEN /\ connected_clients' =
                  [u \in DOMAIN connected_clients \ {t} |-> connected_clients[u]]
            /\ ws_pc' = [ws_pc EXCEPT ![t] = AfterNotify(@)]
            /\ UNCHANGED ws_exc
       ELSE /\ NotifyRaises(t, KeyErrorText)
            /\ UNCHANGED connected_clients
    /\ UNCHANGED <<program, vars_replies, vars_locks, vars_v2_query, vars_svc, vars_flask, vars_v1, vars_v2, vars_api,
                   ws_tasks, ws_client, vars_ws_io>>

\* image_paths = pptx_to_images(...); tasks[task_id]['status'] = 'completed';
\* ['image_paths'] = image_paths; ['completed_at'] = time.time()
ws_convert(t) ==
    /\ program = "websocket_server"
    /\ ws_pc[t].pos = "convert"
    /\ \/ \E e \in ConversionErrors :
            /\ ws_exc' = [ws_exc EXCEPT ![t] = e]
            /\ ws_pc' = [ws_pc EXCEPT ![t] = [pos |-> "except", call |-> 0]]
            /\ UNCHANGED ws_tasks
       \/ \E res \in PPTConversionResults :
            /\ ws_tasks' = [ws_tasks EXCEPT ![t] =
                  [@ EXCEPT !.status = "completed", !.image_paths = res]]
            /\ ws_pc' = [ws_pc EXCEPT ![t] = [pos |-> "log", call |-> 0]]
            /\ UNCHANGED ws_exc
    /\ UNCHANGED <<program, vars_replies, vars_locks, vars_v2_query, vars_svc, vars_flask, vars_v1, vars_v2, vars_api,
                   connected_clients, ws_client, vars_ws_io>>

\* logger.info(f"... {len(image_paths)} ..."), then the second notify_client
\* call; len() raises on the PPTConversionResult.
ws_log_completed(t) ==
    /\ program = "websocket_server"
    /\ ws_pc[t].pos = "log"
    /\ IF HasLen(ws_tasks[t].image_paths)
       THEN /\ ws_pc' = [ws_pc EXCEPT ![t] = [pos |-> "notify_check", call |-> 2]]
            /\ UNCHANGED ws_exc
       ELSE /\ ws_exc' = [ws_exc EXCEPT ![t] = NoLen]
            /\ ws_pc' = [ws_pc EXCEPT ![t] = [pos |-> "except", call |-> 0]]
    /\ UNCHANGED <<program, vars_replies, vars_locks, vars_v2_query, vars_svc, vars_flask, vars_v1, vars_v2, vars_api,
                   ws_tasks, connected_clients, ws_client, vars_ws_io>>

\* except Exception as e: tasks[task_id]['status'] = 'failed';
\* tasks[task_id]['error'] = str(e); then the third notify_client call.
ws_except(t) ==
    /\ program = "websocket_server"
    /\ ws_pc[t].pos = "except"
    /\ ws_tasks' = [ws_tasks EXCEPT ![t] =
          [@ EXCEPT !.status = "failed", !.error = ws_exc[t]]]
    /\ ws_pc' = [ws_pc EXCEPT ![t] = [pos |-> "notify_check", call |-> 3]]
    /\ UNCHANGED <<program, vars_replies, vars_locks, vars_v2_query, vars_svc, vars_flask, vars_v1, vars_v2, vars_api,
                   connected_clients, ws_client, ws_exc, vars_ws_io>>

(* ---------------------------------------------------------------------- *)
(* api.py: the status query and the listing                                *)
(* ---------------------------------------------------------------------- *)

\* Number of task ids a client polls with get_task_status.
NumPolledTasks == 1

PolledTasks == 1 .. NumPolledTasks

\* enumerate(x): defined for a list; a dataclass instance is not iterable and
\* enumerate() raises TypeError.
Iterable(x) == x.type = "list"

\* What get_task_status answers for a stored task: the common fields, then
\* for 'completed' the images (the handler raises, and Flask answers 500,
\* when image_paths cannot be enumerated), for 'failed' the error.
TaskStatusResponse(task) ==
    IF task.status = "completed"
    THEN IF Iterable(task.image_paths)
         THEN [code |-> 200, status |-> task.status,
               image_count |-> task.image_paths.len, error |-> Absent]
         ELSE [code |-> 500, status |-> Absent, image_count |-> -1, error |-> Absent]
    ELSE IF task.status = "failed"
         THEN [code |-> 200, status |-> task.status, image_count |-> -1,
               error |-> task.error]
         ELSE [code |-> 200, status |-> task.status, image_count |-> -1,
               error |-> Absent]

\* get_task_status(task_id): 404 for an unknown id, else the response built
\* from the stored record.  The answers given while the stored status is
\* 'completed' or 'failed' are kept.
api_get_task_status(t) ==
    /\ program = "api"
    /\ list_reply' = NoReply
    /\ terminal_replies' =
          IF t \in DOMAIN api_tasks /\ api_tasks[t].status \in {"completed", "failed"}
          THEN [terminal_replies EXCEPT ![t] = @ \cup {TaskStatusResponse(api_tasks[t])}]
          ELSE terminal_replies
    /\ UNCHANGED <<program, vars_replies, vars_locks, vars_v2_query, vars_ws, vars_svc, vars_flask, vars_v1, vars_v2, api_tasks, api_reply, apc, api_exc,
                   retry_count, cb_chains, cb_trace, cb_return, cb_snapshot,
                   form_callback_url>>

\* task_info of one task; len(task.get('image_paths', [])) is evaluated for a
\* 'completed' task.
TaskInfo(task) ==
    [task_id |-> task.id, status |-> task.status, created_at |-> task.created_at]

\* for task_id, task in tasks.items(): the records in insertion order.
TaskItems(ts) == [i \in 1 .. Cardinality(DOMAIN ts) |-> ts[Ascending(DOMAIN ts)[i]]]

\* task_list.sort(key=lambda x: x['created_at'], reverse=True): a stable
\* sort, elements with equal keys keep the order they had.
RECURSIVE SortNewestFirst(_)
SortNewestFirst(seq) ==
    IF seq = <<>> THEN <<>>
    ELSE LET rest == SortNewestFirst(Tail(seq))
             x == Head(seq)
             newer == SelectSeq(rest, LAMBDA y : y.created_at > x.created_at)
             others == SelectSeq(rest, LAMBDA y : ~(y.created_at > x.created_at))
         IN  newer \o <<x>> \o others

(* ---------------------------------------------------------------------- *)
(* api.py: the payload send_callback builds                                *)
(* ---------------------------------------------------------------------- *)

\* No call of send_callback observed yet.
NoCallback == [called |-> FALSE]

\* An image path: os.path.join(output_dir, name).
ImagePaths == [dir : {"results/1"}, name : PngNames]

\* os.path.basename(path)
basename(path) == path.name

\* Values of tasks[task_id].get('image_paths'): the key is absent (pending,
\* processing), or it holds a list of paths, in any order and without
\* repetition, or the PPTConversionResult that process_ppt_task stores.
ImagePathValues ==
    {[type |-> "absent", items |-> <<>>], [type |-> "PPTConversionResult", items |-> <<>>]}
    \cup {[type |-> "list", items |-> q] :
            q \in {x \in UNION {[1 .. n -> ImagePaths] : n \in 0 .. MaxPngs} :
                      \A i, j \in DOMAIN x : i # j => x[i] # x[j]}}

\* The task records send_callback may find in tasks[task_id].
CallbackTasks ==
    [id : {1}, original_filename : {"deck.pptx"}, filename : {"1.pptx"},
     status : {"pending", "processing", "completed", "failed"},
     created_at : 1 .. MaxTime, image_paths : ImagePathValues,
     completed_at : {Absent, "set"}, error : {Absent, "CoInitialize failed"}]

\* dict.get(key, default)
Get(value, default) == IF value = Absent THEN default ELSE value

\* task.get('image_paths', [])
GetImagePaths(task) ==
    IF task.image_paths.type = "absent" THEN [type |-> "list", items |-> <<>>]
    ELSE task.image_paths

\* Faulty variant: the slide numbers are the indices of enumerate().
image_files_ZeroBased(task_id, paths) ==
    [i \in 1 .. Len(paths) |->
        [slide |-> i - 1, filename |-> basename(paths[i]),
         path |-> <<"/api/tasks", task_id, "images", basename(paths[i])>>]]

\* image_files: one entry per path, built by enumerate().
image_files(task_id, paths) ==
    [i \in 1 .. Len(paths) |->
        [slide |-> (i - 1) + 1, filename |-> basename(paths[i]),
         path |-> <<"/api/tasks", task_id, "images", basename(paths[i])>>]]

\* callback_data as send_callback builds it (lines 370-396), a dictionary;
\* enumerate() and len() raise TypeError on a PPTConversionResult, and then
\* nothing is posted by this call.
build_callback_data(task_id, task) ==
    LET base == [k \in {"task_id"} |-> task_id]
                @@ [k \in {"status"} |-> task.status]
                @@ [k \in {"original_filename"} |-> task.original_filename]
                @@ [k \in {"filename"} |-> task.filename]
                @@ [k \in {"created_at"} |-> task.created_at]
    IN  IF task.status = "completed"
        THEN IF Iterable(GetImagePaths(task))
             THEN [raised |-> FALSE,
                   json |-> [k \in {"image_count"} |-> Len(GetImagePaths(task).items)]
                            @@ [k \in {"images"} |->
                                   image_files(task_id, GetImagePaths(task).items)]
                            @@ [k \in {"completed_at"} |-> Get(task.completed_at, None)]
                            @@ base]
             ELSE [raised |-> TRUE, json |-> base]
        ELSE IF task.status = "failed"
        THEN [raised |-> FALSE,
              json |-> [k \in {"error"} |-> Get(task.error, "Unknown error")] @@ base]
        ELSE [raised |-> FALSE, json |-> base]

\* send_callback(task_id, callback_url) up to requests.post, for any task
\* record.
send_callback_build(task) ==
    /\ program = "api"
    /\ ~callback_data.called
    /\ callback_data' = [called |-> TRUE, task |-> task,
                         payload |-> build_callback_data(task.id, task)]
    /\ UNCHANGED <<program, vars_locks, vars_v2_query, vars_ws, vars_svc, vars_flask,
                   vars_v1, vars_v2, vars_api, stream_reply>>

\* list_all_tasks: one task_info per stored task, sorted newest first, with
\* total = len(task_list); the handler raises (500) at len(image_paths) of a
\* 'completed' task whose image_paths has no len().
list_all_tasks ==
    /\ program = "api"
    /\ list_reply' =
          IF \E t \in DOMAIN api_tasks :
                /\ api_tasks[t].status = "completed"
                /\ ~HasLen(api_tasks[t].image_paths)
          THEN [code |-> 500, total |-> 0, tasks |-> <<>>]
          ELSE LET task_list == [i \in 1 .. Cardinality(DOMAIN api_tasks) |->
                                    TaskInfo(TaskItems(api_tasks)[i])]
               IN  [code |-> 200, total |-> Len(SortNewestFirst(task_list)),
                    tasks |-> SortNewestFirst(task_list)]
    /\ UNCHANGED <<program, vars_replies, vars_locks, vars_v2_query, vars_ws, vars_svc, vars_flask, vars_v1, vars_v2, api_tasks, api_reply, apc, api_exc,
                   retry_count, cb_chains, cb_trace, cb_return, cb_snapshot,
                   form_callback_url, terminal_replies>>

Init ==
    /\ program \in Programs
    /\ result_folder \in [Dirs -> {NoDir} \cup DirContents]
    /\ upload_folder \in [Dirs -> {""} \cup Extensions]
    /\ \A d \in Dirs : ~result_folder[d].exists => upload_folder[d] = ""
    /\ program # "api_service" =>
          /\ result_folder = [d \in Dirs |-> NoDir]
          /\ upload_folder = [d \in Dirs |-> ""]
    /\ svc_tasks = <<>>
    /\ svc_pc = [d \in Dirs |-> "none"]
    /\ booted = FALSE
    /\ loads = 0
    /\ restarts = 0
    /\ status_at_kill = [d \in Dirs |-> "none"]
    /\ query_reply = None
    /\ sessions = <<>>
    /\ convert_reply = [c \in ConvertCalls |-> None]
    /\ convert_pc = [c \in ConvertCalls |-> NoCall]
    /\ status_query = NoQuery
    /\ callback_data = NoCallback
    /\ stream_reply = NoStream
    /\ ws_websocket = [t \in WsTasks |-> 0]
    /\ ws_cleanup = [c \in WsClients |-> <<>>]
    /\ ws_delivered = [t \in WsTasks |-> <<>>]
    /\ connections_lock = 0
    /\ stats_pc = "idle"
    /\ v1_locks = [tasks_lock |-> 0, connections_lock |-> 0]
    /\ v1_hpc = [t \in V1Tasks |-> "idle"]
    /\ v1_tasks = <<>>
    /\ v1pc = [t \in V1Uuids |-> "none"]
    /\ v1_image_paths = [t \in V1Uuids |-> NoResult]
    /\ v1_exc = [t \in V1Uuids |-> None]
    /\ v1_emitted = [t \in V1Uuids |-> <<>>]
    /\ v1_start_requests = [t \in V1Uuids |-> 0]
    /\ v1_submits = [t \in V1Uuids |-> 0]
    /\ tasks = <<>>
    /\ tasks_lock = 0
    /\ active_connections = [s \in Requests |-> 0]
    /\ rooms = {}
    /\ hpc = [r \in Requests |-> "idle"]
    /\ active_tasks = [r \in Requests |-> 0]
    /\ reply = [r \in Requests |-> None]
    /\ wpc = [r \in Requests |-> "none"]
    /\ result = [r \in Requests |-> NoResult]
    /\ exc = [r \in Requests |-> None]
    /\ future_exc = [r \in Requests |-> None]
    /\ emitted = [r \in Requests |-> <<>>]
    /\ api_tasks = <<>>
    /\ api_reply = [t \in Uploads |-> 0]
    /\ apc = [t \in Uploads |-> "none"]
    /\ api_exc = [t \in Uploads |-> None]
    /\ retry_count = [t \in Uploads |-> 0]
    /\ cb_chains = [t \in Uploads |-> 0]
    /\ cb_trace = [t \in Uploads |-> <<>>]
    /\ cb_return = [t \in Uploads |-> None]
    /\ cb_snapshot = [t \in Uploads |-> None]
    /\ form_callback_url = [t \in Uploads |-> Absent]
    /\ terminal_replies = [t \in Uploads |-> {}]
    /\ list_reply = NoReply
    /\ ws_tasks = <<>>
    /\ connected_clients = <<>>
    /\ ws_client = [c \in WsClients |-> "none"]
    /\ ws_pc = [t \in WsTasks |-> [pos |-> "none", call |-> 0]]
    /\ ws_exc = [t \in WsTasks |-> None]

NextV2 ==
    \/ \E r \in Requests : StartAcquire(r)
    \/ \E r \in Requests : Reject(r)
    \/ \E r \in Requests : Admit(r)
    \/ \E r \in Requests : RegisterAndSubmit(r)
    \/ \E t \in Requests : WorkerStart(t)
    \/ \E t \in Requests : RunPipeline(t)
    \/ \E t \in Requests : task_done_callback(t)

\* Runs in which the tasks of a few clients are queried while they are
\* processed.
NextV2Query ==
    \/ \E r \in QueriedTasks : StartAcquire(r)
    \/ \E r \in QueriedTasks : Admit(r)
    \/ \E r \in QueriedTasks : RegisterAndSubmit(r)
    \/ \E t \in QueriedTasks : WorkerStart(t)
    \/ \E t \in QueriedTasks : process_ppt_task_raise(t)
    \/ \E t \in QueriedTasks : process_ppt_task_except_status(t)
    \/ \E t \in QueriedTasks : process_ppt_task_except_error(t)
    \/ \E t \in QueriedTasks : task_done_callback(t)
    \/ \E u \in QueriedTasks, kind \in {"get_task_status", "join_task"} :
          task_status_lookup(kind, u)
    \/ handle_join_task_register
    \/ task_status_read
    \/ task_status_emit

\* Runs of websocket_server_v2.py in which each lock block is entered and
\* left in a step of its own.
NextV2Locks ==
    \/ \E r \in LockClients : StartAcquire(r)
    \/ \E r \in LockClients : Admit(r)
    \/ \E r \in LockClients : register_acquire(r)
    \/ \E r \in LockClients : register_release(r)
    \/ \E r \in LockClients : handle_disconnect_acquire(r)
    \/ \E r \in LockClients : handle_disconnect_release(r)
    \/ \E t \in LockClients : WorkerStart(t)
    \/ \E t \in LockClients : process_ppt_task_raise(t)
    \/ \E t \in LockClients : process_ppt_task_except_status(t)
    \/ \E t \in LockClients : process_ppt_task_except_error(t)
    \/ \E t \in LockClients : task_done_callback(t)
    \/ get_server_stats_tasks
    \/ get_server_stats_unlock
    \/ get_server_stats_connections
    \/ get_server_stats_return

\* The same for the v1 server.
NextV1Locks ==
    \/ \E t \in V1Tasks : v1_upload_file(t)
    \/ \E t \in V1Tasks : v1_start_task_acquire(t)
    \/ \E t \in V1Tasks : v1_start_task_decide(t)
    \/ \E t \in V1Tasks : v1_register_acquire(t)
    \/ \E t \in V1Tasks : v1_register_release(t)
    \/ \E t \in V1Tasks : v1_disconnect_acquire(t)
    \/ \E t \in V1Tasks : v1_disconnect_release(t)
    \/ \E t \in V1Tasks : process_images_task_start(t)
    \/ \E t \in V1Tasks : process_images_task_convert(t)
    \/ \E t \in V1Tasks : process_images_task_except(t)
    \/ v1_get_server_stats

NextApi ==
    \/ \E t \in Uploads : upload_file(t)
    \/ \E t \in Uploads : upload_file_return(t)
    \/ \E t \in PolledTasks : api_get_task_status(t)
    \/ list_all_tasks
    \/ \E t \in Uploads : api_set_processing(t)
    \/ \E t \in Uploads : api_convert(t)
    \/ \E t \in Uploads : api_log_completed(t)
    \/ \E t \in Uploads : api_except(t)
    \/ \E t \in Uploads : api_finally(t)
    \/ \E t \in Uploads : send_callback_post(t)
    \/ \E t \in Uploads : send_callback_sleep(t)

NextV1 ==
    \/ \E t \in V1Tasks : v1_upload_file(t)
    \/ \E t \in V1Tasks : handle_start_task(t)
    \/ \E t \in V1Tasks : process_images_task_start(t)
    \/ \E t \in V1Tasks : process_images_task_convert(t)
    \/ \E t \in V1Tasks : process_images_task_except(t)

\* A burst in the v1 server: uploads, then one start_task per uuid.
NextV1Burst ==
    \/ \E t \in V1Uuids : v1_upload_file(t)
    \/ \E t \in V1Uuids : burst_start_task(t)
    \/ \E t \in V1Uuids : process_images_task_start(t)
    \/ \E t \in V1Uuids : burst_convert(t)
    \/ \E t \in V1Uuids : process_images_task_except(t)

NextFlask ==
    \/ \E s \in Sessions : upload_ppt(s)
    \/ \E c \in ConvertCalls, s \in Sessions : convert_ppt_check(c, s)
    \/ \E c \in ConvertCalls : convert_ppt_start(c)
    \/ \E c \in ConvertCalls : convert_ppt_finish(c)

NextService ==
    \/ load_existing_tasks
    \/ \E d \in Dirs : svc_upload_file(d)
    \/ \E d \in Dirs : svc_set_processing(d)
    \/ \E d \in Dirs : svc_export_slide(d)
    \/ \E d \in Dirs : svc_convert_return(d)
    \/ \E d \in Dirs : svc_log_completed(d)
    \/ \E d \in Dirs : get_task_status(d)
    \/ kill_and_restart

NextWs ==
    \/ \E c \in WsClients : handle_client(c)
    \/ \E c \in WsClients : connection_lost(c)
    \/ \E t \in WsTasks, c \in WsClients : handle_upload(t, c)
    \/ \E c \in WsClients : handle_client_cleanup(c)
    \/ \E c \in WsClients : handle_client_cleanup_del(c)
    \/ \E t \in WsTasks : ws_set_processing(t)
    \/ \E t \in WsTasks : notify_client_check(t)
    \/ \E t \in WsTasks : notify_client_get(t)
    \/ \E t \in WsTasks : notify_client_send(t)
    \/ \E t \in WsTasks : notify_client_drop_check(t)
    \/ \E t \in WsTasks : notify_client_drop(t)
    \/ \E t \in WsTasks : ws_convert(t)
    \/ \E t \in WsTasks : ws_log_completed(t)
    \/ \E t \in WsTasks : ws_except(t)

Next == NextV2 \/ NextApi \/ NextV1 \/ NextFlask \/ NextService \/ NextWs

\* A run of either server program.
Spec == Init /\ [][Next]_vars

\* A run of websocket_server_v2.py.
InitV2 == Init /\ program = "websocket_server_v2"

SpecV2 == InitV2 /\ [][NextV2]_vars

\* A run of websocket_server_v2.py with status queries.
SpecV2Query == InitV2 /\ [][NextV2Query]_vars

\* The same run under fair scheduling: as long as some handler or worker
\* thread can take a step, a step is taken (threads are scheduled, the
\* executor starts submitted tasks, the pipeline call returns or raises).
FairV2 == SpecV2 /\ WF_vars(NextV2)

\* A run of api.py.
InitApi == Init /\ program = "api"

SpecApi == InitApi /\ [][NextApi]_vars

\* A run of the v1 server (v1/api.py with v1/websocket_server.py).
InitV1 == Init /\ program = "v1"

SpecV1 == InitV1 /\ [][NextV1]_vars

\* A run of flask_server.py.
InitFlask == Init /\ program = "flask_server"

SpecFlask == InitFlask /\ [][NextFlask]_vars

\* api.py under windows_service.py, with its folders.
InitService == Init /\ program = "api_service"

SpecService == InitService /\ [][NextService]_vars

\* A burst of start_task events in the v1 server.
SpecV1Burst == InitV1 /\ [][NextV1Burst]_vars

\* The two SocketIO servers with their executors: websocket_server_v2.py,
\* and the v1 server under a burst.
InitExecutors == Init /\ program \in {"websocket_server_v2", "v1"}

SpecExecutors == InitExecutors /\ [][NextV2 \/ NextV1Burst]_vars

\* A run of either SocketIO server, lock block by lock block.
SpecLocks == InitExecutors /\ [][NextV2Locks \/ NextV1Locks]_vars

\* A run of websocket_server.py.
NextCallback == \E task \in CallbackTasks : send_callback_build(task)

\* send_callback applied to every task record.
SpecCallback == InitApi /\ [][NextCallback]_vars

NextStream ==
    \/ \E s \in Sessions : stream_image(s)
    \/ stream_image_iterate

\* flask_server.py with a GET /stream request among the others.
SpecStream == InitFlask /\ [][NextFlask \/ NextStream]_vars

InitWs == Init /\ program = "websocket_server"

SpecWs == InitWs /\ [][NextWs]_vars

(* ---------------------------------------------------------------------- *)
(* Properties                                                              *)
(* ---------------------------------------------------------------------- *)

Terminal == {"completed", "failed"}

Min(a, b) == IF a < b THEN a ELSE b

\* The v2 tasks that occupy an admission slot.
Active == {u \in DOMAIN tasks : tasks[u].status \in {"queued", "processing"}}

\* C1: in websocket_server_v2 the number of tasks in the store whose status
\* is 'queued' or 'processing' never exceeds MAX_CONCURRENT_TASKS, whatever
\* the interleaving of submissions and worker steps.
C1_ActiveBounded == Cardinality(Active) <= MAX_CONCURRENT_TASKS

\* C1 witness: every slot is in use and a further submission was turned away.
C1_Witness ==
    /\ Cardinality(Active) = MAX_CONCURRENT_TASKS
    /\ \E r \in Requests : hpc[r] = "rejected"

\* Requests whose admission decision has been taken, and how it went.
Decided == {r \in Requests : hpc[r] \notin {"idle", "counted"}}
Admitted == {r \in Decided : r \in DOMAIN tasks}
Rejected == {r \in Decided : reply[r] = "error_busy"}

\* C2: as long as no task has terminated, of the N requests decided so far
\* exactly min(N, MAX_CONCURRENT_TASKS) were admitted and inserted, and all
\* the others received the busy error: with k free slots and N > k concurrent
\* requests exactly k are admitted, never k + 1.
C2_ExactAdmission ==
    (\A u \in DOMAIN tasks : tasks[u].status \notin Terminal) =>
        /\ Cardinality(Admitted) = Min(Cardinality(Decided), MAX_CONCURRENT_TASKS)
        /\ Rejected = Decided \ Admitted
        /\ \A r \in Admitted : tasks[r].status \in {"queued", "processing"}

\* C2 witness: more requests than slots were decided while nothing
\* terminated; the last two raced for the last slot.
C2_Witness ==
    /\ \A u \in DOMAIN tasks : tasks[u].status \notin Terminal
    /\ Cardinality(Decided) > MAX_CONCURRENT_TASKS
    /\ Cardinality(Admitted) = MAX_CONCURRENT_TASKS
    /\ Cardinality(Rejected) = Cardinality(Decided) - MAX_CONCURRENT_TASKS

\* C3 (as claimed): in every worker routine a task whose status is
\* 'completed' or 'failed' keeps that status in every later step.
C3_TerminalIsFinal ==
    [][/\ \A t \in DOMAIN api_tasks :
             api_tasks[t].status \in Terminal =>
                 api_tasks'[t].status = api_tasks[t].status
       /\ \A t \in DOMAIN tasks :
             tasks[t].status \in Terminal => tasks'[t].status = tasks[t].status]_vars

Edges ==
    {<<"created", "queued">>, <<"queued", "processing">>,
     <<"processing", "completed">>, <<"processing", "failed">>}

\* C4: in websocket_server_v2 every change of a task's status follows an edge
\* of created -> queued -> processing -> completed | failed; no step moves a
\* task backwards, and a terminal status is entered from 'processing' only.
C4_StatusFollowsEdges ==
    [][\A t \in Requests :
          StatusOf(tasks', t) # StatusOf(tasks, t) =>
              <<StatusOf(tasks, t), StatusOf(tasks', t)>> \in Edges]_vars

\* C4 witness: a task went through the whole machine and its worker is done.
C4_Witness ==
    \E t \in DOMAIN tasks :
        /\ tasks[t].status \in Terminal
        /\ wpc[t] = "finished"
        /\ Len(emitted[t]) >= 2
        /\ emitted[t][1].status = "processing"

FailedPosts(tr) == Len(SelectSeq(tr, LAMBDA x : x.kind = "post" /\ ~x.ok))

\* The callback chain of task t has returned to process_ppt_task.
ChainEnded(t) == apc[t] = "done" /\ cb_chains[t] > 0

\* C5: a callback chain never makes more than 1 + MAX_CALLBACK_RETRIES posts,
\* and one whose every post failed (non-2xx or exception) ends after exactly
\* 1 + MAX_CALLBACK_RETRIES posts by returning False, raising nothing.
C5_AlwaysFailing ==
    \A t \in Uploads :
        /\ Posts(cb_trace[t]) <= 1 + MAX_CALLBACK_RETRIES
        /\ (ChainEnded(t) /\ FailedPosts(cb_trace[t]) = Posts(cb_trace[t])) =>
               /\ Posts(cb_trace[t]) = 1 + MAX_CALLBACK_RETRIES
               /\ cb_return[t] = "False"

\* C5 witness: a chain that failed four times and gave up.
C5_Witness ==
    \E t \in Uploads :
        /\ ChainEnded(t)
        /\ FailedPosts(cb_trace[t]) = 4
        /\ cb_return[t] = "False"

\* The chain is post, sleep, post, sleep, ...: the n-th retry (n >= 1) comes
\* right after a sleep of CALLBACK_RETRY_DELAY and nothing precedes post 0.
Alternates(tr) ==
    \A i \in 1 .. Len(tr) :
        /\ tr[i].kind = (IF i % 2 = 1 THEN "post" ELSE "sleep")
        /\ tr[i].retry = (i - 1) \div 2
        /\ tr[i].kind = "sleep" => tr[i].data = CALLBACK_RETRY_DELAY

\* C6: a chain whose target fails k <= MAX_CALLBACK_RETRIES posts and then
\* answers 2xx makes exactly k + 1 posts and returns True; nothing is posted
\* after the first 2xx; a chain gives up only after all its posts failed; and
\* the delay is taken before every retry and never before the first post.
C6_SucceedsAfterFailures ==
    \A t \in Uploads :
        LET tr == cb_trace[t] IN
        /\ Alternates(tr)
        /\ \A i \in 1 .. Len(tr) - 1 : ~tr[i].ok
        /\ (ChainEnded(t) /\ tr[Len(tr)].ok) =>
               /\ cb_return[t] = "True"
               /\ FailedPosts(tr) <= MAX_CALLBACK_RETRIES
               /\ Posts(tr) = FailedPosts(tr) + 1
        /\ (ChainEnded(t) /\ ~tr[Len(tr)].ok) =>
               /\ cb_return[t] = "False"
               /\ FailedPosts(tr) = 1 + MAX_CALLBACK_RETRIES

\* C6 witness: three failures, then delivery at the fourth post.
C6_Witness ==
    \E t \in Uploads :
        /\ ChainEnded(t)
        /\ cb_return[t] = "True"
        /\ FailedPosts(cb_trace[t]) = 3
        /\ Posts(cb_trace[t]) = 4

\* C7: from the start of a callback chain on, through every post, sleep,
\* retry and the final give-up, the task's record is the one the chain
\* started with.
C7_CallbackLeavesTask ==
    \A t \in Uploads : cb_chains[t] > 0 => api_tasks[t] = cb_snapshot[t]

\* C7 witness: a chain that was given up after its last retry.
C7_Witness ==
    \E t \in Uploads :
        /\ ChainEnded(t)
        /\ cb_return[t] = "False"
        /\ retry_count[t] = MAX_CALLBACK_RETRIES

\* C8: in api.py at most one callback chain is started per task, exactly one
\* once the worker has left its try/except, never while the task is 'pending'
\* or 'processing'; and every payload posted carries the task's terminal
\* status.
C8_OneCallbackAfterTerminal ==
    \A t \in Uploads :
        /\ cb_chains[t] <= 1
        /\ (apc[t] \in {"cb_post", "cb_sleep", "done"}) <=> (cb_chains[t] = 1)
        /\ cb_chains[t] = 1 => api_tasks[t].status \in Terminal
        /\ \A i \in 1 .. Len(cb_trace[t]) :
              cb_trace[t][i].kind = "post" =>
                  /\ cb_trace[t][i].data.status \in Terminal
                  /\ cb_trace[t][i].data.status = api_tasks[t].status

\* C8 witness: a worker finished and its payload went out more than once.
C8_Witness ==
    \E t \in Uploads :
        /\ ChainEnded(t)
        /\ Posts(cb_trace[t]) >= 2
        /\ api_exc[t] \in ConversionErrors

\* C9: the step that rejects a submission leaves the tasks store,
\* active_connections, the rooms and the executor as they were, and a
\* rejected submission is never stored or run afterwards.
C9_RejectionLeavesNoTrace ==
    [][\A r \in Requests :
          /\ (hpc[r] = "counted" /\ hpc'[r] = "rejected") =>
                 /\ tasks' = tasks
                 /\ active_connections' = active_connections
                 /\ rooms' = rooms
                 /\ wpc' = wpc
          /\ hpc[r] = "rejected" =>
                 /\ hpc'[r] = "rejected"
                 /\ r \notin DOMAIN tasks'
                 /\ wpc'[r] = "none"
                 /\ <<Sid(r), r>> \notin rooms'
                 /\ active_connections'[Sid(r)] # r]_vars

\* C9 witness: a submission was rejected because every slot was in use.
C9_Witness ==
    \E r \in Requests :
        /\ hpc[r] = "rejected"
        /\ reply[r] = "error_busy"
        /\ r \notin DOMAIN tasks

\* C10: when the pipeline raised, the worker routine has ended with the task
\* 'failed' and its error equal to the exception text, and nothing was left
\* in the Future (v2) for the exception to travel further.
C10_PipelineExceptionFails ==
    /\ \A t \in Requests :
          (wpc[t] \in {"returned", "finished"} /\ exc[t] \in PipelineErrors) =>
              /\ tasks[t].status = "failed"
              /\ tasks[t].error = exc[t]
              /\ future_exc[t] = None
    /\ \A t \in Uploads :
          (apc[t] \in {"finally", "cb_post", "cb_sleep", "done"}
           /\ api_exc[t] \in ConversionErrors) =>
              /\ api_tasks[t].status = "failed"
              /\ api_tasks[t].error = api_exc[t]

\* C10 witness: one job's pipeline raised and its worker finished; a job
\* admitted into the freed slot is being run by the pool.
C10_Witness ==
    \E t, u \in Requests :
        /\ wpc[t] = "finished"
        /\ exc[t] \in PipelineErrors
        /\ tasks[t].status = "failed"
        /\ Cardinality({v \in Requests : v # u /\ v \in DOMAIN tasks}) >=
               MAX_CONCURRENT_TASKS
        /\ u \in DOMAIN tasks
        /\ wpc[u] = "pipeline"

\* C11 (as claimed): when the pipeline succeeded (v2: it returned a result
\* with every slide uploaded; v1: pptx_to_images returned success), the
\* worker ends with the task 'completed' and the stored counts equal to the
\* counts the pipeline returned.
C11_SuccessIsRecorded ==
    /\ \A t \in Requests :
          (/\ wpc[t] = "returned"
           /\ result[t].type = "PPTMinioResult"
           /\ result[t].failed_uploads = 0
           /\ result[t].total_slides > 0) =>
              /\ tasks[t].status = "completed"
              /\ tasks[t].processed_slides = result[t].successful_uploads
              /\ tasks[t].total_slides = result[t].total_slides
    /\ \A t \in V1Tasks :
          (/\ v1pc[t] = "done"
           /\ v1_image_paths[t].type = "PPTConversionResult"
           /\ v1_image_paths[t].success) =>
              v1_tasks[t].status = "completed"

C13_ConversionFailureFails ==
    /\ \A s \in DOMAIN sessions :
          (/\ sessions[s].conversion_result.type = "PPTConversionResult"
           /\ ~sessions[s].conversion_result.success) =>
              sessions[s].status = "failed"
    /\ \A t \in Uploads :
          (/\ apc[t] \in {"finally", "cb_post", "cb_sleep", "done"}
           /\ api_exc[t] \notin ConversionErrors
           /\ ~api_tasks[t].image_paths.success) =>
              api_tasks[t].status = "failed"

\* What recovery has to produce from the folders, said without reference to
\* how it is computed.
RecoveryCorrect(ts, results, uploads) ==
    /\ DOMAIN ts \subseteq Dirs
    /\ \A d \in Dirs :
          IF results[d].exists /\ results[d].pngs # {}
          THEN /\ d \in DOMAIN ts
               /\ ts[d].id = d
               /\ ts[d].status = "completed"
               /\ Len(ts[d].image_paths) = Cardinality(results[d].pngs)
               /\ {ts[d].image_paths[i] : i \in 1 .. Len(ts[d].image_paths)}
                     = results[d].pngs
               /\ \A i \in 1 .. Len(ts[d].image_paths) - 1 :
                     ts[d].image_paths[i] < ts[d].image_paths[i + 1]
               /\ (ts[d].ppt_path = "") <=> (uploads[d] = "")
          ELSE d \notin DOMAIN ts

\* C14: the step load_existing_tasks leaves exactly one 'completed' record,
\* keyed by the directory name, for every result directory holding at least
\* one .png, with image_paths the directory's .png files in ascending name
\* order; none for a directory without .png; a missing original upload only
\* empties ppt_path.
C14_RecoveryScan ==
    [][(~booted /\ booted') =>
          RecoveryCorrect(svc_tasks', result_folder, upload_folder)]_vars

\* C14 witness: recovery has run over a directory with MaxPngs artifacts and
\* no original upload, and over a directory holding no artifact.
C14_Witness ==
    /\ booted
    /\ restarts = 0
    /\ \E d, e \in Dirs :
          /\ result_folder[d].exists
          /\ Cardinality(result_folder[d].pngs) = MaxPngs
          /\ upload_folder[d] = ""
          /\ d \in DOMAIN svc_tasks
          /\ svc_pc[d] = "none"
          /\ Len(svc_tasks[d].image_paths) = MaxPngs
          /\ result_folder[e].exists
          /\ result_folder[e].pngs = {}
          /\ result_folder[e].other
          /\ e \notin DOMAIN svc_tasks

\* C15 (as claimed): after a kill and restart, a task that was 'pending' or
\* 'processing' when the process died is not in the store as 'completed'.
C15_RecoveredWasCompleted ==
    \A d \in Dirs :
        (/\ booted
         /\ restarts > 0
         /\ svc_pc[d] = "dead"
         /\ status_at_kill[d] \in {"pending", "processing"}
         /\ d \in DOMAIN svc_tasks) =>
            svc_tasks[d].status # "completed"

\* C16: a process runs load_existing_tasks at most once, exactly once before
\* it serves, and every upload or status query is handled by a process whose
\* recovery is over.
C16_RecoveryBeforeServing ==
    [][/\ loads' <= 1
       /\ booted' <=> (loads' = 1)
       /\ (\E d \in Dirs : svc_pc[d] = "none" /\ svc_pc'[d] \in {"pending", "rejected"})
             => (booted /\ loads = 1)
       /\ (query_reply' # query_reply /\ query_reply' # None)
             => (booted /\ loads = 1)]_vars

\* C16 witness: after recovery an upload was accepted and a status query for
\* a recovered task answered.
C16_Witness ==
    /\ booted
    /\ loads = 1
    /\ query_reply = "completed"
    /\ \E d \in Dirs : svc_pc[d] = "pending"

\* C17: under fair scheduling, with the pipeline call always returning or
\* raising, every task admitted as 'queued' reaches 'completed' or 'failed'
\* and stays in the store: from some point on every admitted request's task
\* is in the store with a terminal status (admission is never undone, so this
\* is the same as each admitted task terminating).
C17_AdmittedTerminates ==
    <>[](\A t \in Requests :
            hpc[t] \in {"queued", "submitted"} =>
                (t \in DOMAIN tasks /\ tasks[t].status \in Terminal))

\* C17 witness: every request of the run was decided and every admitted task
\* has terminated, the late one included.
C17_Witness ==
    /\ \A r \in Requests : hpc[r] \in {"rejected", "submitted"}
    /\ Cardinality(DOMAIN tasks) > MAX_CONCURRENT_TASKS
    /\ \A t \in DOMAIN tasks : tasks[t].status \in Terminal /\ wpc[t] = "finished"

\* The progress values a subscriber of the room sees: those of the
\* progress_update and task_complete events, in the order of emission.
ProgressEvents(evs) ==
    SelectSeq(evs, LAMBDA ev : ev.event \in {"progress_update", "task_complete"})

NonDecreasing(evs) ==
    \A i \in 1 .. Len(evs) - 1 : evs[i].progress <= evs[i + 1].progress

\* C18: in websocket_server_v2 and in the v1 server no step lowers the
\* progress stored for a task, and the progress values of the
\* progress_update and task_complete events of one room never decrease.
C18_ProgressMonotone ==
    [][/\ \A t \in DOMAIN tasks : tasks'[t].progress >= tasks[t].progress
       /\ \A t \in Requests : NonDecreasing(ProgressEvents(emitted'[t]))
       /\ \A t \in DOMAIN v1_tasks : v1_tasks'[t].progress >= v1_tasks[t].progress
       /\ \A t \in V1Tasks : NonDecreasing(ProgressEvents(v1_emitted'[t]))]_vars

\* C18 witness: a v2 job ran to its end after its room was sent a progress
\* event.
C18_Witness ==
    \E t \in DOMAIN tasks :
        /\ wpc[t] = "finished"
        /\ Len(ProgressEvents(emitted[t])) >= 1
        /\ tasks[t].progress = ProgressEvents(emitted[t])[1].progress

\* C19: in websocket_server_v2 a step that emits an event to a task's room
\* emits one event, whose status is the one the store held at the moment of
\* emission; and a step in which the worker changes the status (to
\* processing, completed or failed) emits an event carrying the new status.
C19_EventsFollowStore ==
    [][\A t \in Requests :
          LET n == Len(emitted'[t]) IN
          /\ emitted'[t] # emitted[t] =>
                /\ n = Len(emitted[t]) + 1
                /\ emitted'[t][n].stored = emitted'[t][n].status
          /\ (/\ StatusOf(tasks', t) # StatusOf(tasks, t)
              /\ StatusOf(tasks', t) \in {"processing", "completed", "failed"}) =>
                /\ n = Len(emitted[t]) + 1
                /\ emitted'[t][n].status = StatusOf(tasks', t)]_vars

\* C19 witness: a worker wrote 'processing' and 'failed' and the room got an
\* event for each, the last one carrying the stored 'failed'.
C19_Witness ==
    \E t \in DOMAIN tasks :
        /\ wpc[t] = "finished"
        /\ tasks[t].status = "failed"
        /\ Len(emitted[t]) = 2
        /\ emitted[t][1].status = "processing"
        /\ emitted[t][2].event = "task_error"
        /\ emitted[t][2].stored = "failed"

\* C20 (as claimed): no step in which a handler answers its client, or a
\* worker emits to a room, is taken by a thread that holds tasks_lock.
C20_NoPushUnderLock ==
    [][/\ \A r \in Requests :
             reply'[r] # reply[r] => tasks_lock # HandlerThread(r)
       /\ \A t \in Requests :
             emitted'[t] # emitted[t] => tasks_lock # WorkerThread(t)]_vars

\* C21: in websocket_server_v2 a task's download_urls is non-empty only if its
\* status is 'completed', its error is non-null only if its status is
\* 'failed', and no task has both a non-empty result and a non-null error.
C21_ResultXorError ==
    \A t \in DOMAIN tasks :
        /\ tasks[t].download_urls # 0 => tasks[t].status = "completed"
        /\ tasks[t].error # None => tasks[t].status = "failed"
        /\ ~(tasks[t].download_urls # 0 /\ tasks[t].error # None)

\* C21 witness: one task has failed and carries its error text and no
\* download url, while another one is being processed without an error.
C21_Witness ==
    \E t, u \in DOMAIN tasks :
        /\ wpc[t] = "finished"
        /\ tasks[t].status = "failed"
        /\ tasks[t].error # None
        /\ tasks[t].download_urls = 0
        /\ tasks[u].status = "processing"
        /\ tasks[u].error = None

\* C23: in the v1 server process_images_task is submitted at most once per
\* task: a start_task for a task that is not 'uploaded' (queued, processing,
\* completed or failed) submits nothing and never makes it 'queued', and a
\* worker that has begun is never put back in the queue.
C23_StartedOnce ==
    [][\A t \in DOMAIN v1_tasks :
          /\ v1_submits'[t] <= 1
          /\ v1_tasks[t].status # "uploaded" =>
                 /\ v1_submits'[t] = v1_submits[t]
                 /\ v1_tasks'[t].status = "queued" => v1_tasks[t].status = "queued"
          /\ v1pc[t] \in {"convert", "except", "done"} => v1pc'[t] # "queued"]_vars

\* C23 witness: a task received a second start_task after its conversion had
\* failed; it was submitted once and is still 'failed'.
C23_Witness ==
    \E t \in DOMAIN v1_tasks :
        /\ v1_start_requests[t] >= 2
        /\ v1_submits[t] = 1
        /\ v1pc[t] = "done"
        /\ v1_tasks[t].status = "failed"

\* C24 (as claimed): the acceptance of a submission (api.py: the response of
\* upload_file; websocket_server_v2: task_created) has been returned before
\* the conversion of that job begins.
C24_AcceptanceBeforeConversion ==
    /\ \A t \in Uploads : apc[t] \notin {"none", "start"} => api_reply[t] = 200
    /\ \A r \in Requests :
          wpc[r] \notin {"none", "pending"} => reply[r] = "task_created"

\* C25 (as claimed): whatever the subscriber does (it disconnects, a push to
\* it fails), a job of websocket_server.py ends in the terminal state its
\* conversion determines: the worker thread runs to its end and the error it
\* records is the one the conversion step raised.
C25_SubscriberLossIsHarmless ==
    \A t \in DOMAIN ws_tasks :
        /\ ws_pc[t].pos # "died"
        /\ ws_tasks[t].status = "failed" =>
               ws_tasks[t].error \in ConversionErrors \cup {NoLen}

\* C26 (as claimed): all status queries answered for a task while its stored
\* status is 'completed' or 'failed' return the same snapshot.
C26_TerminalSnapshotStable ==
    \A t \in Uploads : Cardinality(terminal_replies[t]) <= 1

\* What a listing has to be for the store it was taken from.
ListCorrect(r, ts) ==
    /\ r.code = 200
    /\ r.total = Cardinality(DOMAIN ts)
    /\ Len(r.tasks) = r.total
    /\ \A t \in DOMAIN ts :
          Cardinality({i \in 1 .. Len(r.tasks) : r.tasks[i].task_id = t}) = 1
    /\ \A i \in 1 .. Len(r.tasks) - 1 :
          r.tasks[i].created_at >= r.tasks[i + 1].created_at

\* C27 (as claimed): list_all_tasks returns exactly one summary per stored
\* task, with total equal to the number of stored tasks, ordered by
\* non-increasing created_at.
C27_ListNewestFirst ==
    list_reply # NoReply => ListCorrect(list_reply, api_tasks)

\* C28 (as claimed): an upload that supplies no callback_url is accepted: it
\* is not answered 400, its task is created, and no callback chain is ever
\* started for it.
C28_CallbackIsOptional ==
    \A t \in Uploads :
        form_callback_url[t] = None =>
            /\ api_reply[t] # 400
            /\ t \in DOMAIN api_tasks
            /\ cb_chains[t] = 0

\* C29 (as claimed): in the v1 server the number of tasks whose status is
\* 'queued' or 'processing' never exceeds MAX_CONCURRENT_TASKS.
C29_V1ActiveBounded ==
    Cardinality({t \in DOMAIN v1_tasks :
                    v1_tasks[t].status \in {"queued", "processing"}})
        <= V1_MAX_CONCURRENT_TASKS

\* C30: in both SocketIO servers the number of tasks whose status is
\* 'processing' never exceeds the size of the server's executor, however
\* many tasks were admitted.
C30_ProcessingWithinPool ==
    /\ Cardinality({t \in DOMAIN tasks : tasks[t].status = "processing"})
          <= MAX_CONCURRENT_TASKS
    /\ Cardinality({t \in DOMAIN v1_tasks : v1_tasks[t].status = "processing"})
          <= V1_MAX_CONCURRENT_TASKS

\* C30 witness: in the v1 server more tasks were admitted than the executor
\* has threads; every thread is processing one and a queued task waits.
C30_Witness ==
    /\ Cardinality({t \in DOMAIN v1_tasks : v1_tasks[t].status = "processing"})
          = V1_MAX_CONCURRENT_TASKS
    /\ \E t \in DOMAIN v1_tasks :
          v1_tasks[t].status = "queued" /\ v1pc[t] = "queued"
\* The records the store holds for task u at the moments tasks_lock is free:
\* what Admit, WorkerStart, the branches of "if result['success']", the
\* except clause and task_done_callback leave behind.
CommittedRecords(u) ==
    {[TaskData(u) EXCEPT !.status = st] : st \in {"queued", "processing"}}
    \cup {[TaskData(u) EXCEPT !.status = "failed", !.error = e] :
             e \in PipelineErrors \cup {NotSubscriptable}}
    \cup {[TaskData(u) EXCEPT !.status = "completed", !.progress = 100,
                              !.total_slides = MaxSlides,
                              !.processed_slides = k, !.download_urls = k] :
             k \in 0 .. MaxSlides}

\* C31 (as claimed): the task_status snapshot sent by get_task_status or
\* join_task equals, field by field, one committed record of the task; in
\* particular a 'completed' snapshot carries progress 100 and the final
\* counts, and a 'failed' one carries the error.
C31_SnapshotIsCommitted ==
    status_query.pos = "sent" =>
        \E c \in CommittedRecords(status_query.uuid) :
            \A i \in 1 .. Len(status_query.read) :
                status_query.read[i] = c[StatusFields(status_query.kind)[i]]
\* The convert_ppt calls that invoked pptx_to_images for session s.
PipelineCalls(s) ==
    {c \in ConvertCalls :
        /\ convert_pc[c].session = s
        /\ \/ convert_pc[c].pos = "converting"
           \/ convert_pc[c].pos = "done" /\ convert_reply[c] \in {"raised", "completed"}}

\* C32 (as claimed): for one PPTService session the conversion pipeline is
\* invoked at most once, also when several convert_ppt requests for it are
\* handled concurrently.
C32_ConvertedOnce ==
    \A s \in DOMAIN sessions : Cardinality(PipelineCalls(s)) <= 1

\* A convert_ppt call whose checks find the session unknown or not
\* 'uploaded' raises ValueError, changes no session record and creates none,
\* and is over.
GuardRejects ==
    \A c \in ConvertCalls :
        /\ (convert_pc[c].pos = "none" /\ convert_pc'[c].pos # "none") =>
              LET s == convert_pc'[c].session
              IN  (s \notin DOMAIN sessions \/ sessions[s].status # "uploaded") =>
                      /\ convert_reply'[c] = "ValueError"
                      /\ convert_pc'[c].pos = "done"
                      /\ sessions' = sessions
        /\ convert_reply[c] = "ValueError" =>
              /\ convert_pc'[c] = convert_pc[c]
              /\ convert_reply'[c] = "ValueError"

C34_LocksNeverNested ==
    /\ tasks_lock # 0 => tasks_lock # connections_lock
    /\ v1_locks.tasks_lock # 0 => v1_locks.tasks_lock # v1_locks.connections_lock
    /\ (tasks_lock # 0 \/ connections_lock # 0) => ENABLED NextV2Locks
    /\ (v1_locks.tasks_lock # 0 \/ v1_locks.connections_lock # 0) =>
           ENABLED NextV1Locks

\* C34 witness: both locks are held at once, by different threads: a handler
\* is inside its connections_lock block while another thread is inside a
\* tasks_lock block.
C34_Witness ==
    \/ /\ tasks_lock # 0
       /\ connections_lock \in {HandlerThread(r) : r \in LockClients}
       /\ \E r \in LockClients : hpc[r] = "registering"
    \/ /\ v1_locks.tasks_lock # 0
       /\ v1_locks.connections_lock # 0
       /\ \E t \in V1Tasks : v1_hpc[t] = "registering"


\* The orders in which a client can receive the messages of one job.
MessageOrders ==
    {<<"task_created", "task_update", last>> : last \in {"task_completed", "task_failed"}}

IsPrefix(p, q) == Len(p) <= Len(q) /\ SubSeq(q, 1, Len(p)) = p

\* C35: In websocket_server.py the messages a client has received for one
\* job are always an initial part of task_created, task_update and then one
\* of task_completed and task_failed; when the worker enters its first
\* notification while the cleanup of the uploading connection has not begun,
\* the task is registered in connected_clients; and a job whose worker has
\* ended with the connection still up and registered has delivered all
\* three messages, exactly one of them terminal.
C35_MessagesInOrder ==
    program = "websocket_server" =>
        \A t \in WsTasks :
            /\ \E q \in MessageOrders : IsPrefix(ws_delivered[t], q)
            /\ ( /\ ws_pc[t].pos = "notify_check"
                 /\ ws_pc[t].call = 1
                 /\ ws_client[WsClient(t)] \in {"open", "lost"} )
               => t \in DOMAIN connected_clients
            /\ ( /\ ws_pc[t].pos = "done"
                 /\ t \in DOMAIN connected_clients
                 /\ ws_client[WsClient(t)] = "open" )
               => Len(ws_delivered[t]) = 3

\* A job all of whose messages were delivered, the last one a task_failed.
C35_Witness ==
    /\ program = "websocket_server"
    /\ \E t \in WsTasks :
         /\ ws_pc[t].pos = "done"
         /\ ws_delivered[t] = <<"task_created", "task_update", "task_failed">>
         /\ t \in DOMAIN connected_clients


\* C37: In websocket_server.py, once the cleanup of handle_client has run
\* for a websocket, connected_clients holds no entry that maps a task to
\* that websocket.
C37_CleanedUp ==
    program = "websocket_server" =>
        \A c \in WsClients :
            ws_client[c] = "closed" =>
                \A t \in DOMAIN connected_clients : connected_clients[t] # c


\* The terminal events among the events emitted to one room.
TerminalEventCount(events) ==
    Cardinality({i \in 1 .. Len(events) : events[i].event \in {"task_complete", "task_error"}})

\* C36: In websocket_server_v2 at most one terminal event (task_complete or
\* task_error) is ever emitted to the room of a task, none before its
\* worker has run the pipeline and exactly one from the moment
\* process_ppt_task has returned, the done-callback included; a request that
\* was not admitted gets none.
C36_OneTerminalEvent ==
    program = "websocket_server_v2" =>
        \A t \in Requests :
            /\ TerminalEventCount(emitted[t]) <= 1
            /\ wpc[t] \in {"returned", "finished"} => TerminalEventCount(emitted[t]) = 1
            /\ wpc[t] \in {"none", "pending", "pipeline"} => TerminalEventCount(emitted[t]) = 0
            /\ t \notin DOMAIN tasks => emitted[t] = <<>>

\* A task whose worker and done-callback have both ended.
C36_Witness ==
    /\ program = "websocket_server_v2"
    /\ \E t \in Requests :
         /\ t \in DOMAIN tasks
         /\ wpc[t] = "finished"
         /\ TerminalEventCount(emitted[t]) = 1
         /\ emitted[t][Len(emitted[t])].event = "task_error"


\* What a callback payload must hold for the task record it was built from.
PayloadMatches(task, json) ==
    LET always == {"task_id", "status", "original_filename", "filename", "created_at"}
        done == {"image_count", "images", "completed_at"}
        paths == GetImagePaths(task).items
    IN  /\ always \subseteq DOMAIN json
        /\ json["task_id"] = task.id
        /\ json["status"] = task.status
        /\ json["original_filename"] = task.original_filename
        /\ json["filename"] = task.filename
        /\ json["created_at"] = task.created_at
        /\ IF task.status = "completed"
           THEN /\ done \subseteq DOMAIN json
                /\ json["image_count"] = Len(paths)
                /\ Len(json["images"]) = Len(paths)
                /\ \A i \in 1 .. Len(paths) :
                      /\ json["images"][i].slide = i
                      /\ json["images"][i].filename = paths[i].name
           ELSE done \cap DOMAIN json = {}
        /\ "error" \in DOMAIN json <=> task.status = "failed"
        /\ DOMAIN json \subseteq always \cup done \cup {"error"}

\* C38: Every payload api.send_callback builds holds task_id, status,
\* original_filename, filename and created_at of the task; it holds
\* image_count, images (one entry per image path, numbered 1..n in path
\* order) and completed_at exactly when the status is 'completed', error
\* exactly when it is 'failed', and nothing else.
C38_CallbackPayload ==
    (program = "api" /\ callback_data.called /\ ~callback_data.payload.raised)
        => PayloadMatches(callback_data.task, callback_data.payload.json)

\* A payload built for a completed task with two image paths.
C38_Witness ==
    /\ program = "api"
    /\ callback_data.called
    /\ ~callback_data.payload.raised
    /\ callback_data.task.status = "completed"
    /\ callback_data.payload.json["image_count"] = 2

\* C39: GET /stream/<session_id>/<filename> of flask_server is answered 404
\* whenever the session is unknown or not completed or the file is missing.
C39_InvalidStreamIs404 ==
    (program = "flask_server" /\ stream_reply.pos = "answered" /\ stream_reply.error # None)
        => stream_reply.status = 404

====
